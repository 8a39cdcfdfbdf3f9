--------------------------- MODULE PollScheduler ----------------------------
(***************************************************************************)
(* The background poll of email/poll_scheduler.rs: a loop that, on each    *)
(* tick, spawns a sync task for every connected account that is due, and   *)
(* the bookkeeping of a finished task with its exponential backoff in      *)
(* machine integers of Width bits (64 in the code).                        *)
(***************************************************************************)
EXTENDS Integers

CONSTANTS
    PolledAccounts,
    Interval,           \* seconds between two polls of an account
    Base,               \* 30 in the code
    BackoffCap,         \* MAX_BACKOFF_SECS
    Width,
    Lapses,             \* bound: the lengths of time that pass at once
    MaxFailures         \* bound: failures in a row

\* Powers of two are positive numbers, which the prover cannot know.
ASSUME PollAssumption ==
    /\ Interval \in Nat \ {0} /\ Base \in Nat \ {0} /\ BackoffCap \in Nat /\ Width \in Nat \ {0}
    /\ Lapses \subseteq Nat /\ MaxFailures \in Nat
    /\ \A n \in 0..Width : 2^n \in Nat \ {0}

VARIABLES
    enabled,    \* PollSchedulerInner.enabled
    polls,      \* PollSchedulerInner.accounts
    connected,  \* accounts whose row says connected
    visiting,   \* accounts of the current tick the loop has yet to look at
    syncing,    \* how many sync tasks of each account run
    panicked    \* history: accounts whose sync task died without an answer

pollVars == <<enabled, polls, connected, visiting, syncing, panicked>>

-----------------------------------------------------------------------------
Modulus == 2^Width

PollState == [since : Nat, backoff : 0..BackoffCap, inProgress : BOOLEAN, failures : Nat]

Untracked == [since |-> 0, backoff |-> 0, inProgress |-> FALSE, failures |-> -1]

Tracked(a) == polls[a] # Untracked

\* AccountPollState::default
Fresh == [since |-> 0, backoff |-> 0, inProgress |-> FALSE, failures |-> 0]

Entry(a) == IF Tracked(a) THEN polls[a] ELSE Fresh

Smaller(m, n) == IF m < n THEN m ELSE n

\* 2u64.saturating_pow(n)
SaturatingPow(n) == IF n >= Width THEN Modulus - 1 ELSE 2^n

\* (30 * 2^(failures - 1)).min(MAX_BACKOFF_SECS): a release build
\* wraps the product.
BackoffAfter(failures) == Smaller((Base * SaturatingPow(failures - 1)) % Modulus, BackoffCap)

-----------------------------------------------------------------------------
PollInit ==
    /\ enabled = TRUE
    /\ polls = [a \in PolledAccounts |-> Untracked]
    /\ connected \in SUBSET PolledAccounts
    /\ visiting = {}
    /\ syncing = [a \in PolledAccounts |-> 0]
    /\ panicked = {}

\* The tick lists the accounts; a disabled scheduler skips it.
Tick ==
    /\ visiting = {} /\ enabled
    /\ visiting' = connected
    /\ UNCHANGED <<enabled, polls, connected, syncing, panicked>>

\* Mutant: an account is due whatever runs for it.
DueAnyway(a) == Tracked(a) => polls[a].since >= Interval + polls[a].backoff

Due(a) ==
    Tracked(a) => ~polls[a].inProgress /\ polls[a].since >= Interval + polls[a].backoff

Visit(a) ==
    /\ a \in visiting
    /\ visiting' = visiting \ {a}
    /\ IF Due(a)
       THEN /\ polls' = [polls EXCEPT ![a] = [Entry(a) EXCEPT !.inProgress = TRUE]]
            /\ syncing' = [syncing EXCEPT ![a] = @ + 1]
       ELSE UNCHANGED <<polls, syncing>>
    /\ UNCHANGED <<enabled, connected, panicked>>

\* The sync callback returns Ok.
SyncSucceeds(a) ==
    /\ syncing[a] > 0
    /\ syncing' = [syncing EXCEPT ![a] = @ - 1]
    /\ polls' = [polls EXCEPT ![a] = Fresh]
    /\ UNCHANGED <<enabled, connected, visiting, panicked>>

Failed(n) == [since |-> 0, inProgress |-> FALSE, failures |-> n, backoff |-> BackoffAfter(n)]

\* The sync callback returns Err.
SyncFails(a) ==
    /\ syncing[a] > 0 /\ Entry(a).failures < MaxFailures
    /\ syncing' = [syncing EXCEPT ![a] = @ - 1]
    /\ polls' = [polls EXCEPT ![a] = Failed(Entry(a).failures + 1)]
    /\ UNCHANGED <<enabled, connected, visiting, panicked>>

\* The sync callback panics: nothing resets in_progress.
SyncPanics(a) ==
    /\ syncing[a] > 0 /\ panicked = {}
    /\ syncing' = [syncing EXCEPT ![a] = @ - 1]
    /\ panicked' = {a}
    /\ UNCHANGED <<enabled, polls, connected, visiting>>

\* Time passes between two ticks; what is beyond every deadline is not counted.
Elapse ==
    /\ visiting = {}
    /\ \E d \in Lapses :
        polls' = [a \in PolledAccounts |->
                    IF Tracked(a) THEN [polls[a] EXCEPT !.since = Smaller(@ + d, Interval + BackoffCap)]
                    ELSE Untracked]
    /\ UNCHANGED <<enabled, connected, visiting, syncing, panicked>>

\* set_enabled
SetEnabled ==
    /\ enabled' = ~enabled
    /\ UNCHANGED <<polls, connected, visiting, syncing, panicked>>

\* An account is connected or disconnected.
Reconnect ==
    /\ connected' \in SUBSET PolledAccounts \ {connected}
    /\ UNCHANGED <<enabled, polls, visiting, syncing, panicked>>

\* The task of an account ends, unless the bound on failures forbids it to fail.
SyncEnds(a) == SyncSucceeds(a) \/ SyncFails(a)

PollNext ==
    \/ Tick \/ Elapse \/ SetEnabled \/ Reconnect
    \/ \E a \in PolledAccounts : Visit(a) \/ SyncEnds(a) \/ SyncPanics(a)

PollSpec == PollInit /\ [][PollNext]_pollVars

\* The ticker fires, time goes on, and a sync ends, for its calls have timeouts.
\* (A start_ingestion that never returns, StartHangs of module MailSync, is left
\* out: its task and its mark stay.)
PollFairness ==
    /\ SF_pollVars(Tick) /\ SF_pollVars(Elapse)
    /\ \A a \in PolledAccounts : WF_pollVars(Visit(a)) /\ WF_pollVars(SyncEnds(a))

PollFairSpec == PollSpec /\ PollFairness

-----------------------------------------------------------------------------
PollTypeOK ==
    /\ enabled \in BOOLEAN
    /\ polls \in [PolledAccounts -> PollState \cup {Untracked}]
    /\ connected \subseteq PolledAccounts /\ visiting \subseteq PolledAccounts
    /\ syncing \in [PolledAccounts -> Nat] /\ panicked \subseteq PolledAccounts

\* An account is never synced by two polls at once, and it is marked as being
\* polled exactly while its task runs, unless that task died.
OneSyncPerAccount ==
    \A a \in PolledAccounts \ panicked : syncing[a] = IF Entry(a).inProgress THEN 1 ELSE 0

\* An account that keeps failing is asked less and less often: one more failure
\* in a row never shortens the backoff, and the first one sets it.
BackoffGrows ==
    [][\A a \in PolledAccounts :
           polls'[a].failures > Entry(a).failures =>
               polls'[a].backoff >= Entry(a).backoff /\ polls'[a].backoff > 0]_pollVars

ToPoll(a) == a \in connected /\ enabled
Polled(a) == syncing[a] > 0 \/ ~ToPoll(a) \/ a \in panicked

\* A connected account is polled again and again for as long as it stays
\* connected and polling stays enabled, unless its task died.
PolledAgain == \A a \in PolledAccounts : ToPoll(a) ~> Polled(a)

\* The marks of the scheduler and the tasks it started agree.
PollInv == PollTypeOK /\ OneSyncPerAccount
=============================================================================
