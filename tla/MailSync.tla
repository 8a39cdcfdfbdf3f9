------------------------------- MODULE MailSync -------------------------------
(***************************************************************************)
(* The mail of one account: the provider's mailbox with its change history, *)
(* sync_emails_from_provider, which copies it into the emails table (delta  *)
(* since the stored marker, or a full listing), and the callers: the poll   *)
(* scheduler and POST /ingestion/start behind the account's pipeline lock,  *)
(* and the send, reply and forward handlers, which take no lock.            *)
(*                                                                         *)
(* SPAM changes are handled as TRASH changes are and are left out, as are   *)
(* the rules applied to a new email, the progress events and the moment at  *)
(* which a poll is due.  start_ingestion (module IngestionPipeline) only    *)
(* spawns a run and changes nothing here, when it returns.                  *)
(***************************************************************************)
EXTENDS Integers, Sequences, FiniteSets

CONSTANTS
    Msgs,
    Manual, Senders, \* requests to start an ingestion, and to send
    Poll, Nobody,
    HistoryPage,    \* records in one history.list answer
    MaxLog,         \* bound: changes of the mailbox
    MaxFailures,    \* bound: failing calls, timeouts and starts that hang
    MayExpire       \* whether the provider forgets old history

Lockers == {Poll} \cup Manual
Callers == Lockers \cup Senders

ASSUME MailSyncAssumption ==
    /\ IsFiniteSet(Callers) /\ Nobody \notin Callers
    /\ Poll \notin Manual \cup Senders /\ Manual \cap Senders = {}
    /\ HistoryPage \in Nat \ {0} /\ MaxLog \in Nat /\ MaxFailures \in Nat
    /\ MayExpire \in BOOLEAN

VARIABLES
    server,     \* the provider's copy of each message
    log,        \* the provider's history records
    horizon,    \* records up to here are forgotten
    local,      \* the row of each message in emails
    marker,     \* sync_state.history_id: a position in log, or NoMarker
    lock,       \* the holder in AccountLockMap
    call,       \* where each caller is
    sync,       \* the sync each caller runs
    missed,     \* history: messages whose last change a sync passed over
    overlap,    \* history: an unlocked sync ran beside another
    failures

mailbox == <<server, log, horizon>>
vars == <<mailbox, local, marker, lock, call, sync, missed, overlap, failures>>

NoMarker == -1

\* A sync: the messages it has still to fetch or list, the answer of
\* history.list, the messages it passes over, and the position its marker
\* names: asked for, then new.
NoSync == [pc |-> "none", todo |-> {}, trashed |-> {}, restored |-> {}, deleted |-> {},
           passed |-> {}, at |-> NoMarker, forgotten |-> FALSE]

Live == {m \in Msgs : server[m] \in {"inbox", "trash"}}

Syncing == {c \in Callers : sync[c].pc # "none"}

Fails == failures < MaxFailures /\ failures' = failures + 1

-----------------------------------------------------------------------------
\* The account has just been connected; its mailbox may hold messages already.
Init ==
    /\ server \in [Msgs -> {"none", "inbox"}]
    /\ log = <<>> /\ horizon = 0
    /\ local = [m \in Msgs |-> "none"]
    /\ marker = NoMarker
    /\ lock = Nobody
    /\ call = [c \in Callers |-> "idle"]
    /\ sync = [c \in Callers |-> NoSync]
    /\ missed = {} /\ overlap = FALSE /\ failures = 0

-----------------------------------------------------------------------------
(* The provider *)

\* What each kind of change turns a message into.
After == [add |-> "inbox", trash |-> "trash", restore |-> "inbox", delete |-> "gone"]

Legal(kind, state) ==
    CASE kind = "add"     -> state = "none"
      [] kind = "trash"   -> state = "inbox"
      [] kind = "restore" -> state = "trash"
      [] kind = "delete"  -> state \in {"inbox", "trash"}

Change(m) ==
    /\ Len(log) < MaxLog
    /\ \E kind \in DOMAIN After :
        /\ Legal(kind, server[m])
        /\ server' = [server EXCEPT ![m] = After[kind]]
        /\ log' = Append(log, [kind |-> kind, msg |-> m])
    /\ UNCHANGED <<horizon, local, marker, lock, call, sync, missed, overlap, failures>>

Forget ==
    /\ MayExpire /\ horizon < Len(log)
    /\ horizon' = Len(log)
    /\ UNCHANGED <<server, log, local, marker, lock, call, sync, missed, overlap, failures>>

-----------------------------------------------------------------------------
(* The callers *)

\* A sync begins, with the marker still to be read.
BeginSync(c) ==
    /\ sync' = [sync EXCEPT ![c].pc = "read"]
    /\ overlap' = (overlap \/ \E d \in Syncing : Senders \cap {c, d} # {})

\* Mutant: the one that finds the lock taken releases it.
RequestReleasing(c) ==
    /\ call[c] = "idle"
    /\ c \in Senders => ~overlap
    /\ IF c \in Senders \/ lock = Nobody
       THEN /\ call' = [call EXCEPT ![c] = "sync"]
            /\ lock' = IF c \in Senders THEN lock ELSE c
            /\ BeginSync(c)
       ELSE lock' = Nobody /\ UNCHANGED <<call, sync, overlap>>
    /\ UNCHANGED <<mailbox, local, marker, missed, failures>>

\* A poll is due, or a request arrives.  try_acquire: a poll that finds the
\* lock taken skips, a request gets 409; send, reply and forward do not ask.
\* (Bound: none of those begins after the first overlap.)
Request(c) ==
    /\ call[c] = "idle"
    /\ IF c \in Senders THEN ~overlap ELSE lock = Nobody
    /\ call' = [call EXCEPT ![c] = "sync"]
    /\ lock' = IF c \in Senders THEN lock ELSE c
    /\ BeginSync(c)
    /\ UNCHANGED <<mailbox, local, marker, missed, failures>>

\* Mutant: a poll whose sync fails returns without releasing.
ReturnsUnreleased(c) ==
    /\ sync[c].pc \in {"ok", "error"}
    /\ call' = [call EXCEPT ![c] = IF c \in Senders \/ (c = Poll /\ sync[c].pc = "error")
                                   THEN "idle" ELSE "release"]
    /\ sync' = [sync EXCEPT ![c] = NoSync]
    /\ UNCHANGED <<mailbox, local, marker, lock, missed, overlap, failures>>

\* The sync returns.  On an error a poll gives up and a request goes on:
\* both end by releasing the lock.
SyncReturns(c) ==
    /\ sync[c].pc \in {"ok", "error"}
    /\ call' = [call EXCEPT ![c] = IF c \in Senders THEN "idle" ELSE "release"]
    /\ sync' = [sync EXCEPT ![c] = NoSync]
    /\ UNCHANGED <<mailbox, local, marker, lock, missed, overlap, failures>>

\* tokio::time::timeout drops the sync of a request wherever it is.
SyncTimesOut(c) ==
    /\ c \in Manual /\ sync[c].pc \notin {"none", "ok", "error"}
    /\ Fails
    /\ sync' = [sync EXCEPT ![c] = [NoSync EXCEPT !.pc = "error"]]
    /\ UNCHANGED <<mailbox, local, marker, lock, call, missed, overlap>>

\* start_ingestion waits for ever for the state that a batch that failed to
\* embed has left locked (Locked, module IngestionPipeline), and the caller
\* with it.  A poll whose sync failed does not call it.
StartHangs(c) ==
    /\ c \in Lockers /\ sync[c].pc \in {"ok", "error"}
    /\ c = Poll => sync[c].pc = "ok"
    /\ Fails
    /\ call' = [call EXCEPT ![c] = "hung"]
    /\ sync' = [sync EXCEPT ![c] = NoSync]
    /\ UNCHANGED <<mailbox, local, marker, lock, missed, overlap>>

\* start_ingestion has spawned a run or found one in progress (not after a
\* failed poll); the lock is released without waiting for the run.
Release(c) ==
    /\ call[c] = "release"
    /\ lock' = Nobody
    /\ call' = [call EXCEPT ![c] = "idle"]
    /\ UNCHANGED <<mailbox, local, marker, sync, missed, overlap, failures>>

-----------------------------------------------------------------------------
(* sync_emails_from_provider *)

\* The messages that the records after one position and up to another touch.
Touched(from, to) == {log[i].msg : i \in (from + 1)..to}

\* list_messages hands out, page by page, what the mailbox held at the start.
Listing == [NoSync EXCEPT !.pc = "list", !.todo = Live, !.at = Len(log)]

\* The account, its token or the row cannot be read.
SyncFails(c) ==
    /\ sync[c].pc \in {"read", "list"}
    /\ Fails
    /\ sync' = [sync EXCEPT ![c].pc = "error"]
    /\ UNCHANGED <<mailbox, local, marker, lock, call, missed, overlap>>

ReadMarker(c) ==
    /\ sync[c].pc = "read"
    /\ sync' = [sync EXCEPT ![c] = IF marker = NoMarker THEN Listing
                                   ELSE [NoSync EXCEPT !.pc = "delta", !.at = marker]]
    /\ UNCHANGED <<mailbox, local, marker, lock, call, missed, overlap, failures>>

\* parse_gmail_history: label changes are merged per message, additions apart
\* from removals, whatever order they came in.
Of(kind, page) == {page[i].msg : i \in {k \in DOMAIN page : page[k].kind = kind}}

\* Merging or paging passes over a change: a restored message that the same
\* answer also trashes or deletes, and every record beyond the first page,
\* whose token nobody reads.
PassedOver(page, from) ==
    Touched(from + HistoryPage, Len(log))
    \cup {m \in Of("restore", page) :
            IF m \in Of("trash", page) THEN server[m] = "inbox" ELSE m \in Of("delete", page)}

\* history.list.  The status is not looked at: the body of the error for a
\* marker that is too old parses as an answer without changes or marker.
FetchDelta(c) ==
    LET from == sync[c].at
        page == SubSeq(log, from + 1,
                       IF from + HistoryPage < Len(log) THEN from + HistoryPage ELSE Len(log))
    IN  /\ sync[c].pc = "delta"
        /\ sync' = [sync EXCEPT ![c] =
              IF from < horizon THEN [NoSync EXCEPT !.pc = "ok", !.forgotten = TRUE]
              ELSE [pc |-> "fetch", at |-> Len(log), forgotten |-> FALSE,
                    todo |-> Of("add", page) \cup Of("trash", page) \cup Of("restore", page),
                    trashed |-> Of("trash", page), restored |-> Of("restore", page),
                    deleted |-> Of("delete", page), passed |-> PassedOver(page, from)]]
        /\ UNCHANGED <<mailbox, local, marker, lock, call, missed, overlap, failures>>

\* The connection fails or the body is not JSON.
DeltaFails(c) ==
    /\ sync[c].pc = "delta"
    /\ Fails
    /\ sync' = [sync EXCEPT ![c].pc = "clear"]
    /\ UNCHANGED <<mailbox, local, marker, lock, call, missed, overlap>>

\* The marker is cleared and a full sync follows.
ClearMarker(c) ==
    /\ sync[c].pc = "clear"
    /\ marker' = NoMarker
    /\ sync' = [sync EXCEPT ![c] = Listing]
    /\ UNCHANGED <<mailbox, local, lock, call, missed, overlap, failures>>

\* upsert_email: the row takes the state the provider has now.
Upsert(m) ==
    /\ local' = [local EXCEPT ![m] = IF m \in Live THEN server[m] ELSE @]
    /\ missed' = IF m \in Live THEN missed \ {m} ELSE missed

\* get_message and upsert_email, or a row of a page of the listing.
FetchMessage(c) ==
    /\ sync[c].pc \in {"fetch", "list"}
    /\ \E m \in sync[c].todo :
        /\ Upsert(m)
        /\ sync' = [sync EXCEPT ![c].todo = @ \ {m}]
    /\ UNCHANGED <<mailbox, marker, lock, call, overlap, failures>>

\* get_message or the upsert fails: the message is skipped.  (The label
\* changes of the delta still reach a row that exists.)
MessageFails(c) ==
    /\ sync[c].pc \in {"fetch", "list"}
    /\ Fails
    /\ \E m \in sync[c].todo :
         sync' = [sync EXCEPT ![c].todo = @ \ {m},
                              ![c].passed = IF sync[c].pc = "list" \/ local[m] = "none"
                                            THEN @ \cup {m} ELSE @]
    /\ UNCHANGED <<mailbox, local, marker, lock, call, missed, overlap>>

\* update_email_state for the deletions, then for the label changes.
ApplyChanges(c) ==
    /\ sync[c].pc = "fetch" /\ sync[c].todo = {}
    /\ local' = [m \in Msgs |->
          IF local[m] = "none" THEN "none"
          ELSE CASE m \in sync[c].trashed                       -> "trash"
                 [] m \in sync[c].restored \ sync[c].trashed    -> "inbox"
                 [] m \in sync[c].deleted \ (sync[c].trashed \cup sync[c].restored) -> "deleted"
                 [] OTHER                                       -> local[m]]
    /\ sync' = [sync EXCEPT ![c].pc = "record"]
    /\ UNCHANGED <<mailbox, marker, lock, call, missed, overlap, failures>>

\* fetch_provider_history_id, after the last page: it passes over what
\* changed since the listing, and a listing never shows what is gone.
Capture(c) ==
    /\ sync[c].pc = "list" /\ sync[c].todo = {}
    /\ sync' = [sync EXCEPT ![c].pc = "record", ![c].at = Len(log),
                    ![c].passed = @ \cup Touched(sync[c].at, Len(log))
                                    \cup {m \in Msgs : server[m] = "gone" /\ local[m] = "inbox"}]
    /\ UNCHANGED <<mailbox, local, marker, lock, call, missed, overlap, failures>>

\* The profile cannot be read: no marker is recorded, as for Outlook.
CaptureFails(c) ==
    /\ sync[c].pc = "list" /\ sync[c].todo = {}
    /\ Fails
    /\ sync' = [sync EXCEPT ![c].pc = "ok"]
    /\ UNCHANGED <<mailbox, local, marker, lock, call, missed, overlap>>

\* Mutant: the marker recorded is the mailbox's current one.
RecordCurrent(c) ==
    /\ sync[c].pc = "record"
    /\ marker' = Len(log)
    /\ missed' = missed \cup sync[c].passed
    /\ sync' = [sync EXCEPT ![c].pc = "ok"]
    /\ UNCHANGED <<mailbox, local, lock, call, overlap, failures>>

\* Mutant: the marker recorded is the next one.
RecordNext(c) ==
    /\ sync[c].pc = "record"
    /\ marker' = sync[c].at + 1
    /\ missed' = missed \cup sync[c].passed
    /\ sync' = [sync EXCEPT ![c].pc = "ok"]
    /\ UNCHANGED <<mailbox, local, lock, call, overlap, failures>>

\* sync_state takes the marker of the answer or of the profile.
RecordMarker(c) ==
    /\ sync[c].pc = "record"
    /\ marker' = sync[c].at
    /\ missed' = missed \cup sync[c].passed
    /\ sync' = [sync EXCEPT ![c].pc = "ok"]
    /\ UNCHANGED <<mailbox, local, lock, call, overlap, failures>>

-----------------------------------------------------------------------------
Sync(c) ==
    \/ ReadMarker(c) \/ SyncFails(c) \/ FetchDelta(c) \/ DeltaFails(c) \/ ClearMarker(c)
    \/ FetchMessage(c) \/ MessageFails(c) \/ ApplyChanges(c)
    \/ Capture(c) \/ CaptureFails(c) \/ RecordMarker(c)

Step(c) ==
    Sync(c) \/ SyncReturns(c) \/ SyncTimesOut(c) \/ StartHangs(c) \/ Release(c)

Next ==
    \/ \E m \in Msgs : Change(m)
    \/ Forget
    \/ \E c \in Callers : Request(c) \/ Step(c)

Spec == Init /\ [][Next]_vars

\* A task that can run runs, and every call to the provider returns.
FairSpec == Spec /\ \A c \in Callers : WF_vars(Step(c))

-----------------------------------------------------------------------------
TypeOK ==
    /\ server \in [Msgs -> {"none", "inbox", "trash", "gone"}]
    /\ log \in Seq([kind : DOMAIN After, msg : Msgs]) /\ Len(log) <= MaxLog
    /\ horizon \in 0..Len(log)
    /\ local \in [Msgs -> {"none", "inbox", "trash", "deleted"}]
    /\ marker \in {NoMarker} \cup 0..Len(log)
    /\ lock \in Lockers \cup {Nobody}
    /\ call \in [Callers -> {"idle", "sync", "release", "hung"}]
    /\ sync \in [Callers -> [pc : {"none", "read", "delta", "clear", "fetch", "list", "record",
                                   "ok", "error"},
                             todo : SUBSET Msgs, trashed : SUBSET Msgs, restored : SUBSET Msgs,
                             deleted : SUBSET Msgs, passed : SUBSET Msgs,
                             at : {NoMarker} \cup 0..Len(log), forgotten : BOOLEAN]]
    /\ missed \subseteq Msgs /\ overlap \in BOOLEAN /\ failures \in 0..MaxFailures

\* Of the callers that take the lock at most one is between its acquire and
\* its release, and the map names that one.
LockedAlone ==
    \A c \in Lockers : call[c] # "idle" => lock = c

\* Whether a row agrees with the provider's copy.
Agrees(m) ==
    CASE server[m] = "gone" -> local[m] # "inbox"
      [] OTHER              -> local[m] = server[m]

\* With no sync at work and the stored marker the provider's current one, so
\* that no later delta would repair anything, the rows agree with the
\* mailbox.  The exceptions: messages whose last change a sync is known to
\* pass over, and histories in which an unlocked sync ran beside another.
CaughtUp ==
    Syncing = {} /\ marker = Len(log) /\ ~overlap =>
        \A m \in Msgs \ missed : Agrees(m)

\* The lock of an account is always given back, unless its holder waits for a
\* start_ingestion that never returns.
LockIsFreed == []<>(lock = Nobody \/ \E c \in Lockers : call[c] = "hung")

\* "Delta failed (e.g. expired history_id). Clear it and fall through to full
\* sync": a sync never reports success on a forgotten marker it leaves in place.
ForgottenMarkerCleared ==
    \A c \in Callers : sync[c].pc = "ok" /\ sync[c].forgotten => marker = NoMarker
=============================================================================
