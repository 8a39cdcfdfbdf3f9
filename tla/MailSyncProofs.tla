--------------------------- MODULE MailSyncProofs ---------------------------
(***************************************************************************)
(* Theorems about the sync of an account, for any set of messages and of   *)
(* callers, any history page and any number of changes and failures.       *)
(***************************************************************************)
EXTENDS MailSync, SequenceTheorems, TLAPS

SyncPcs == {"none", "read", "delta", "clear", "fetch", "list", "record", "ok", "error"}

Record == [kind : DOMAIN After, msg : Msgs]

\* What TypeOK says of a sync, when the history has n records.
SyncType(n) == [pc : SyncPcs, todo : SUBSET Msgs, trashed : SUBSET Msgs,
                restored : SUBSET Msgs, deleted : SUBSET Msgs, passed : SUBSET Msgs,
                at : {NoMarker} \cup 0..n, forgotten : BOOLEAN]

LEMMA SyncTyped ==
    TypeOK <=>
      /\ server \in [Msgs -> {"none", "inbox", "trash", "gone"}]
      /\ log \in Seq(Record) /\ Len(log) <= MaxLog
      /\ horizon \in 0..Len(log)
      /\ local \in [Msgs -> {"none", "inbox", "trash", "deleted"}]
      /\ marker \in {NoMarker} \cup 0..Len(log)
      /\ lock \in Lockers \cup {Nobody}
      /\ call \in [Callers -> {"idle", "sync", "release", "hung"}]
      /\ sync \in [Callers -> SyncType(Len(log))]
      /\ missed \subseteq Msgs /\ overlap \in BOOLEAN /\ failures \in 0..MaxFailures
BY DEF TypeOK, SyncType, SyncPcs, Record

LEMMA NoSyncType == \A n \in Nat : NoSync \in SyncType(n)
BY DEF NoSync, SyncType, SyncPcs

\* A longer history leaves a sync well typed.
LEMMA SyncTypeGrows ==
    ASSUME NEW n \in Nat, NEW f \in [Callers -> SyncType(n)]
    PROVE  f \in [Callers -> SyncType(n + 1)]
<1>1. 0..n \subseteq 0..(n + 1)
  OBVIOUS
<1>2. SyncType(n) \subseteq SyncType(n + 1)
  BY <1>1 DEF SyncType
<1> QED BY <1>2

\* The messages of a kind, or of a range of records, are messages.
LEMMA OfType ==
    ASSUME NEW page \in Seq(Record), NEW kind PROVE Of(kind, page) \subseteq Msgs
<1>1. \A i \in DOMAIN page : page[i] \in Record
  BY LenProperties, ElementOfSeq
<1> QED BY <1>1 DEF Of, Record

LEMMA TouchedType ==
    ASSUME TypeOK, NEW from \in Int, NEW to \in Int, 0 <= from, to <= Len(log)
    PROVE  Touched(from, to) \subseteq Msgs
<1>1. \A i \in 1..Len(log) : log[i] \in Record
  BY SyncTyped, ElementOfSeq
<1>2. Len(log) \in Nat
  BY SyncTyped, LenProperties
<1>3. (from + 1)..to \subseteq 1..Len(log)
  BY <1>2
<1> QED BY <1>1, <1>3 DEF Touched, Record

-----------------------------------------------------------------------------
(* Type correctness *)

LEMMA InitType == Init => TypeOK
<1> SUFFICES ASSUME Init PROVE TypeOK
  OBVIOUS
<1>1. log \in Seq(Record) /\ Len(log) = 0
  BY EmptySeq DEF Init
<1>2. sync \in [Callers -> SyncType(0)]
  BY NoSyncType DEF Init
<1>3. Len(log) <= MaxLog /\ failures \in 0..MaxFailures /\ horizon \in 0..Len(log)
  BY <1>1, MailSyncAssumption DEF Init
<1>4. server \in [Msgs -> {"none", "inbox", "trash", "gone"}]
  BY DEF Init
<1>5. /\ local \in [Msgs -> {"none", "inbox", "trash", "deleted"}]
      /\ call \in [Callers -> {"idle", "sync", "release", "hung"}]
  BY DEF Init
<1>6. marker \in {NoMarker} \cup 0..Len(log) /\ lock \in Lockers \cup {Nobody}
      /\ missed \subseteq Msgs /\ overlap \in BOOLEAN
  BY DEF Init
<1>7. sync \in [Callers -> SyncType(Len(log))]
  BY <1>1, <1>2
<1> QED BY <1>1, <1>3, <1>4, <1>5, <1>6, <1>7, SyncTyped

\* The mailbox.
LEMMA MailboxType ==
    ASSUME TypeOK, Forget \/ \E m \in Msgs : Change(m) PROVE TypeOK'
<1>0. Len(log) \in Nat /\ MaxLog \in Nat
  BY SyncTyped, LenProperties, MailSyncAssumption
<1>1. CASE Forget
  <2>1. horizon' \in 0..Len(log')
    BY <1>0, <1>1 DEF Forget
  <2> QED BY <1>1, <2>1, SyncTyped DEF Forget, TypeOK
<1>2. ASSUME NEW m \in Msgs, Change(m) PROVE TypeOK'
  <2>1. PICK kind \in DOMAIN After :
          /\ server' = [server EXCEPT ![m] = After[kind]]
          /\ log' = Append(log, [kind |-> kind, msg |-> m])
    BY <1>2 DEF Change
  <2>2. log' \in Seq(Record) /\ Len(log') = Len(log) + 1
    <3>1. [kind |-> kind, msg |-> m] \in Record
      BY DEF Record
    <3>2. log \in Seq(Record)
      BY SyncTyped
    <3> QED BY <2>1, <3>1, <3>2
  <2>3. Len(log') <= MaxLog
    BY <1>0, <1>2, <2>2 DEF Change
  <2>4. server' \in [Msgs -> {"none", "inbox", "trash", "gone"}]
    BY <2>1, SyncTyped DEF After
  <2>5. sync' \in [Callers -> SyncType(Len(log'))]
    BY <1>0, <1>2, <2>2, SyncTyped, SyncTypeGrows DEF Change
  <2>6. horizon' \in 0..Len(log') /\ marker' \in {NoMarker} \cup 0..Len(log')
    BY <1>0, <1>2, <2>2, SyncTyped DEF Change
  <2>7. UNCHANGED <<local, lock, call, missed, overlap, failures>>
    BY <1>2 DEF Change
  <2> QED BY <2>2, <2>3, <2>4, <2>5, <2>6, <2>7 DEF TypeOK, SyncType, SyncPcs, Record
<1> QED BY <1>1, <1>2

\* Steps that leave the mailbox alone.
LEMMA Frame ==
    ASSUME TypeOK, UNCHANGED mailbox,
           local' \in [Msgs -> {"none", "inbox", "trash", "deleted"}],
           marker' \in {NoMarker} \cup 0..Len(log),
           lock' \in Lockers \cup {Nobody},
           call' \in [Callers -> {"idle", "sync", "release", "hung"}],
           sync' \in [Callers -> SyncType(Len(log))],
           missed' \subseteq Msgs, overlap' \in BOOLEAN, failures' \in 0..MaxFailures
    PROVE  TypeOK'
BY DEF TypeOK, SyncType, SyncPcs, mailbox

LEMMA FailsType ==
    ASSUME TypeOK, Fails PROVE failures' \in 0..MaxFailures
BY MailSyncAssumption DEF TypeOK, Fails

\* The callers.
LEMMA CallType ==
    ASSUME TypeOK, NEW c \in Callers,
           Request(c) \/ SyncReturns(c) \/ SyncTimesOut(c) \/ StartHangs(c) \/ Release(c)
    PROVE  TypeOK'
<1> DEFINE S == SyncType(Len(log))
<1>0. NoSync \in S /\ sync \in [Callers -> S]
  BY SyncTyped, LenProperties, NoSyncType
<1>1. CASE Request(c)
  <2>1. [sync[c] EXCEPT !.pc = "read"] \in S
    BY <1>0 DEF SyncType, SyncPcs
  <2>2. sync' \in [Callers -> S] /\ overlap' \in BOOLEAN
    BY <1>0, <1>1, <2>1, SyncTyped DEF Request, BeginSync
  <2>3. lock' \in Lockers \cup {Nobody}
    BY <1>1, SyncTyped DEF Request, Callers
  <2>4. call' \in [Callers -> {"idle", "sync", "release", "hung"}]
    BY <1>1, SyncTyped DEF Request
  <2> QED BY <1>1, <2>2, <2>3, <2>4, SyncTyped, Frame DEF Request
<1>2. CASE SyncReturns(c)
  <2>1. sync' \in [Callers -> S]
    BY <1>0, <1>2 DEF SyncReturns
  <2>2. call' \in [Callers -> {"idle", "sync", "release", "hung"}]
    BY <1>2, SyncTyped DEF SyncReturns
  <2> QED BY <1>2, <2>1, <2>2, SyncTyped, Frame DEF SyncReturns
<1>3. CASE SyncTimesOut(c)
  <2>1. sync' \in [Callers -> S]
    <3>1. [NoSync EXCEPT !.pc = "error"] \in S
      BY <1>0 DEF SyncType, SyncPcs
    <3> QED BY <1>0, <1>3, <3>1 DEF SyncTimesOut
  <2>2. call' \in [Callers -> {"idle", "sync", "release", "hung"}]
    BY <1>3, SyncTyped DEF SyncTimesOut
  <2> QED BY <1>3, <2>1, <2>2, SyncTyped, Frame, FailsType DEF SyncTimesOut
<1>4. CASE Release(c)
  <2>1. call' \in [Callers -> {"idle", "sync", "release", "hung"}]
    BY <1>4, SyncTyped DEF Release
  <2> QED BY <1>4, <2>1, SyncTyped, Frame DEF Release
<1>5. CASE StartHangs(c)
  <2>1. sync' \in [Callers -> S]
    BY <1>0, <1>5 DEF StartHangs
  <2>2. call' \in [Callers -> {"idle", "sync", "release", "hung"}]
    BY <1>5, SyncTyped DEF StartHangs
  <2> QED BY <1>5, <2>1, <2>2, SyncTyped, Frame, FailsType DEF StartHangs
<1> QED BY <1>1, <1>2, <1>3, <1>4, <1>5

\* A step of a sync that changes nothing else than its own state.
LEMMA SyncOnly ==
    ASSUME TypeOK, NEW c \in Callers, NEW s \in SyncType(Len(log)),
           sync' = [sync EXCEPT ![c] = s],
           UNCHANGED <<mailbox, local, marker, lock, call, missed, overlap>>,
           failures' \in 0..MaxFailures
    PROVE  TypeOK'
<1>1. sync' \in [Callers -> SyncType(Len(log))]
  BY SyncTyped
<1> QED BY <1>1, SyncTyped, Frame

\* history.list: the page, and what is made of it.
LEMMA DeltaType ==
    ASSUME TypeOK, NEW c \in Callers, FetchDelta(c) PROVE TypeOK'
<1> DEFINE from == sync[c].at
           to   == IF from + HistoryPage < Len(log) THEN from + HistoryPage ELSE Len(log)
           page == SubSeq(log, from + 1, to)
           answer == [pc |-> "fetch", at |-> Len(log), forgotten |-> FALSE,
                      todo |-> Of("add", page) \cup Of("trash", page) \cup Of("restore", page),
                      trashed |-> Of("trash", page), restored |-> Of("restore", page),
                      deleted |-> Of("delete", page), passed |-> PassedOver(page, from)]
<1>1. Len(log) \in Nat /\ HistoryPage \in Nat /\ from \in {NoMarker} \cup 0..Len(log)
  BY SyncTyped, LenProperties, MailSyncAssumption DEF SyncType
<1>2. CASE from < horizon
  <2>1. [NoSync EXCEPT !.pc = "ok", !.forgotten = TRUE] \in SyncType(Len(log))
    BY <1>1 DEF NoSync, SyncType, SyncPcs
  <2> QED BY <1>2, <2>1, SyncOnly, SyncTyped DEF FetchDelta
<1>3. CASE ~(from < horizon)
  <2>1. from \in 0..Len(log)
    BY <1>1, <1>3, SyncTyped DEF NoMarker
  <2>2. \A i \in (from + 1)..to : log[i] \in Record
    BY <1>1, <2>1, SyncTyped, ElementOfSeq
  <2>3. page \in Seq(Record)
    BY <1>1, <2>1, <2>2, SubSeqProperties
  <2>4. \A kind : Of(kind, page) \subseteq Msgs
    BY <2>3, OfType
  <2>5. Touched(from + HistoryPage, Len(log)) \subseteq Msgs
    BY <1>1, <2>1, TouchedType
  <2>6. PassedOver(page, from) \subseteq Msgs
    <3> HIDE DEF page, from
    <3> QED BY <2>4, <2>5 DEF PassedOver
  <2>7. answer \in SyncType(Len(log))
    <3> HIDE DEF page, from
    <3> QED BY <1>1, <2>4, <2>6 DEF SyncType, SyncPcs
  <2>8. sync' = [sync EXCEPT ![c] = answer]
    BY <1>3 DEF FetchDelta
  <2>9. UNCHANGED <<mailbox, local, marker, lock, call, missed, overlap, failures>>
    BY DEF FetchDelta
  <2> HIDE DEF answer
  <2> QED BY <2>7, <2>8, <2>9, SyncOnly, SyncTyped
<1> QED BY <1>2, <1>3

LEMMA LiveType == Live \subseteq Msgs
BY DEF Live

LEMMA ListingType ==
    ASSUME TypeOK PROVE Listing \in SyncType(Len(log)) /\ Listing.at \in 0..Len(log)
<1>1. Len(log) \in 0..Len(log)
  BY SyncTyped, LenProperties
<1>2. NoSync \in SyncType(Len(log))
  BY SyncTyped, LenProperties, NoSyncType
<1> QED BY <1>1, <1>2, LiveType DEF Listing, SyncType, SyncPcs

\* A listing knows the position it started at: with TypeOK, inductive.
ListAt == \A c \in Callers : sync[c].pc = "list" => sync[c].at \in 0..Len(log)

TypeInv == TypeOK /\ ListAt

\* The other steps of a sync that leave rows and marker alone.
LEMMA QuietType ==
    ASSUME TypeInv, NEW c \in Callers,
           \/ SyncFails(c) \/ ReadMarker(c) \/ DeltaFails(c) \/ MessageFails(c)
           \/ Capture(c) \/ CaptureFails(c)
    PROVE  TypeOK'
<1> DEFINE S == SyncType(Len(log))
<1>0. Len(log) \in Nat /\ sync[c] \in S /\ failures \in 0..MaxFailures /\ TypeOK
  BY SyncTyped, LenProperties DEF TypeInv
<1>1. CASE SyncFails(c)
  <2>1. [sync[c] EXCEPT !.pc = "error"] \in S
    BY <1>0 DEF SyncType, SyncPcs
  <2> QED BY <1>0, <1>1, <2>1, SyncOnly, FailsType DEF SyncFails
<1>2. CASE ReadMarker(c)
  <2>1. Listing \in S
    BY <1>0, ListingType
  <2>2. [NoSync EXCEPT !.pc = "delta", !.at = marker] \in S
    BY <1>0, SyncTyped DEF NoSync, SyncType, SyncPcs
  <2>3. UNCHANGED <<mailbox, local, marker, lock, call, missed, overlap, failures>>
    BY <1>2 DEF ReadMarker
  <2>4. CASE marker = NoMarker
    <3>1. sync' = [sync EXCEPT ![c] = Listing]
      BY <1>2, <2>4 DEF ReadMarker
    <3> QED BY <1>0, <2>1, <2>3, <3>1, SyncOnly
  <2>5. CASE marker # NoMarker
    <3>1. sync' = [sync EXCEPT ![c] = [NoSync EXCEPT !.pc = "delta", !.at = marker]]
      BY <1>2, <2>5 DEF ReadMarker
    <3> QED BY <1>0, <2>2, <2>3, <3>1, SyncOnly
  <2> QED BY <2>4, <2>5
<1>3. CASE DeltaFails(c)
  <2>1. [sync[c] EXCEPT !.pc = "clear"] \in S
    BY <1>0 DEF SyncType, SyncPcs
  <2> QED BY <1>0, <1>3, <2>1, SyncOnly, FailsType DEF DeltaFails
<1>4. CASE MessageFails(c)
  <2>1. PICK m \in sync[c].todo :
          sync' = [sync EXCEPT ![c].todo = @ \ {m},
                               ![c].passed = IF sync[c].pc = "list" \/ local[m] = "none"
                                             THEN @ \cup {m} ELSE @]
    BY <1>4 DEF MessageFails
  <2> DEFINE p == IF sync[c].pc = "list" \/ local[m] = "none"
                  THEN sync[c].passed \cup {m} ELSE sync[c].passed
             s == [sync[c] EXCEPT !.todo = @ \ {m}, !.passed = p]
  <2>2. m \in Msgs /\ p \subseteq Msgs
    BY <1>0 DEF SyncType
  <2>3. s \in S
    BY <1>0, <2>2 DEF SyncType
  <2>4. sync' = [sync EXCEPT ![c] = s]
    BY <1>0, <2>1, SyncTyped DEF SyncType
  <2>5. UNCHANGED <<mailbox, local, marker, lock, call, missed, overlap>> /\ Fails
    BY <1>4 DEF MessageFails
  <2> HIDE DEF s
  <2> QED BY <1>0, <2>3, <2>4, <2>5, SyncOnly, FailsType
<1>5. CASE Capture(c)
  <2> DEFINE p == sync[c].passed \cup Touched(sync[c].at, Len(log))
                    \cup {m \in Msgs : server[m] = "gone" /\ local[m] = "inbox"}
             s == [sync[c] EXCEPT !.pc = "record", !.at = Len(log), !.passed = p]
  <2>1. Touched(sync[c].at, Len(log)) \subseteq Msgs
    BY <1>0, <1>5, TouchedType DEF TypeInv, ListAt, Capture
  <2>2. s \in S
    <3>1. p \in SUBSET Msgs /\ Len(log) \in {NoMarker} \cup 0..Len(log)
      BY <1>0, <2>1 DEF SyncType
    <3> HIDE DEF p
    <3> QED BY <1>0, <3>1 DEF SyncType, SyncPcs
  <2>3. sync' = [sync EXCEPT ![c] = s]
    BY <1>0, <1>5, SyncTyped DEF Capture, SyncType
  <2>4. UNCHANGED <<mailbox, local, marker, lock, call, missed, overlap, failures>>
    BY <1>5 DEF Capture
  <2> HIDE DEF s
  <2> QED BY <1>0, <2>2, <2>3, <2>4, SyncOnly
<1>6. CASE CaptureFails(c)
  <2>1. [sync[c] EXCEPT !.pc = "ok"] \in S
    BY <1>0 DEF SyncType, SyncPcs
  <2> QED BY <1>0, <1>6, <2>1, SyncOnly, FailsType DEF CaptureFails
<1> QED BY <1>1, <1>2, <1>3, <1>4, <1>5, <1>6

\* The steps that write rows or the marker.
LEMMA WriteType ==
    ASSUME TypeOK, NEW c \in Callers,
           ClearMarker(c) \/ FetchMessage(c) \/ ApplyChanges(c) \/ RecordMarker(c)
    PROVE  TypeOK'
<1> DEFINE S == SyncType(Len(log))
<1>0. Len(log) \in Nat /\ sync \in [Callers -> S] /\ sync[c] \in S
  BY SyncTyped, LenProperties
<1>1. CASE ClearMarker(c)
  <2>1. Listing \in S
    BY ListingType
  <2>2. sync' \in [Callers -> S]
    BY <1>0, <1>1, <2>1 DEF ClearMarker
  <2> QED BY <1>1, <2>2, SyncTyped, Frame DEF ClearMarker
<1>2. CASE FetchMessage(c)
  <2>1. PICK m \in sync[c].todo : Upsert(m) /\ sync' = [sync EXCEPT ![c].todo = @ \ {m}]
    BY <1>2 DEF FetchMessage
  <2>2. m \in Msgs /\ [sync[c] EXCEPT !.todo = @ \ {m}] \in S
    BY <1>0 DEF SyncType
  <2>3. sync' \in [Callers -> S]
    BY <1>0, <2>1, <2>2
  <2>4. local' \in [Msgs -> {"none", "inbox", "trash", "deleted"}] /\ missed' \subseteq Msgs
    BY <2>1, <2>2, SyncTyped DEF Upsert, Live
  <2> QED BY <1>2, <2>3, <2>4, SyncTyped, Frame DEF FetchMessage
<1>3. CASE ApplyChanges(c)
  <2>1. [sync[c] EXCEPT !.pc = "record"] \in S
    BY <1>0 DEF SyncType, SyncPcs
  <2>2. sync' \in [Callers -> S]
    BY <1>0, <1>3, <2>1 DEF ApplyChanges
  <2>3. local' \in [Msgs -> {"none", "inbox", "trash", "deleted"}]
    BY <1>3, SyncTyped DEF ApplyChanges
  <2> QED BY <1>3, <2>2, <2>3, SyncTyped, Frame DEF ApplyChanges
<1>4. CASE RecordMarker(c)
  <2>1. [sync[c] EXCEPT !.pc = "ok"] \in S
    BY <1>0 DEF SyncType, SyncPcs
  <2>2. sync' \in [Callers -> S]
    BY <1>0, <1>4, <2>1 DEF RecordMarker
  <2>3. marker' \in {NoMarker} \cup 0..Len(log) /\ missed' \subseteq Msgs
    BY <1>0, <1>4, SyncTyped DEF RecordMarker, SyncType
  <2> QED BY <1>4, <2>2, <2>3, SyncTyped, Frame DEF RecordMarker
<1> QED BY <1>1, <1>2, <1>3, <1>4

LEMMA TypeStep == TypeInv /\ [Next]_vars => TypeOK'
<1> SUFFICES ASSUME TypeInv, [Next]_vars PROVE TypeOK'
  OBVIOUS
<1>0. TypeOK
  BY DEF TypeInv
<1>1. CASE Forget \/ \E m \in Msgs : Change(m)
  BY <1>0, <1>1, MailboxType
<1>2. ASSUME NEW c \in Callers, Request(c) \/ Step(c) PROVE TypeOK'
  BY <1>0, <1>2, CallType, QuietType, DeltaType, WriteType DEF Step, Sync
<1>3. CASE UNCHANGED vars
  BY <1>0, <1>3 DEF TypeOK, vars, mailbox
<1> QED BY <1>1, <1>2, <1>3 DEF Next

\* Only ReadMarker and ClearMarker start a listing.
LEMMA ListStep == TypeInv /\ [Next]_vars => ListAt'
<1> SUFFICES ASSUME TypeInv, [Next]_vars PROVE ListAt'
  OBVIOUS
<1>0. TypeOK /\ ListAt /\ Len(log) \in Nat /\ DOMAIN sync = Callers
      /\ \A d \in Callers : sync[d] \in SyncType(Len(log))
  BY SyncTyped, LenProperties DEF TypeInv
<1>1. CASE \E m \in Msgs : Change(m)
  <2>1. PICK r \in Record : log' = Append(log, r)
    BY <1>1 DEF Change, Record
  <2>2. Len(log') = Len(log) + 1
    BY <2>1, SyncTyped, <1>0
  <2>3. sync' = sync
    BY <1>1 DEF Change
  <2> QED BY <1>0, <2>2, <2>3 DEF ListAt
<1>2. CASE Forget \/ UNCHANGED vars
  BY <1>0, <1>2 DEF ListAt, Forget, vars, mailbox
<1>3. ASSUME NEW c \in Callers, Request(c) \/ Step(c) PROVE ListAt'
  <2>1. log' = log
    BY <1>3 DEF mailbox, Request, Step, Sync, ReadMarker, SyncFails, FetchDelta, DeltaFails,
         ClearMarker, FetchMessage, MessageFails, ApplyChanges, Capture, CaptureFails,
         RecordMarker, SyncReturns, SyncTimesOut, StartHangs, Release
  <2>2. \A d \in Callers \ {c} : sync'[d] = sync[d]
    BY <1>0, <1>3 DEF Request, BeginSync, Step, Sync, ReadMarker, SyncFails, FetchDelta,
         DeltaFails, ClearMarker, FetchMessage, MessageFails, ApplyChanges, Capture,
         CaptureFails, RecordMarker, SyncReturns, SyncTimesOut, StartHangs, Release
  <2>3. sync'[c].pc = "list" => sync'[c].at \in 0..Len(log)
    <3>1. CASE ReadMarker(c) \/ ClearMarker(c)
      BY <1>0, <3>1, ListingType DEF ReadMarker, ClearMarker, NoSync
    <3>2. CASE FetchMessage(c) \/ MessageFails(c)
      <4>1. sync'[c].pc = sync[c].pc /\ sync'[c].at = sync[c].at
        <5>1. CASE FetchMessage(c)
          BY <1>0, <5>1 DEF FetchMessage, SyncType
        <5>2. CASE MessageFails(c)
          BY <1>0, <5>2 DEF MessageFails, SyncType
        <5> QED BY <3>2, <5>1, <5>2
      <4> QED BY <1>0, <4>1 DEF ListAt
    <3>3. CASE FetchDelta(c)
      BY <1>0, <3>3 DEF FetchDelta, NoSync
    <3>4. CASE Request(c) \/ SyncReturns(c) \/ SyncTimesOut(c) \/ StartHangs(c) \/ Release(c)
      BY <1>0, <3>4 DEF Request, BeginSync, SyncReturns, SyncTimesOut, StartHangs, Release, NoSync, ListAt,
           SyncType
    <3>5. CASE \/ SyncFails(c) \/ DeltaFails(c) \/ ApplyChanges(c) \/ Capture(c)
               \/ CaptureFails(c) \/ RecordMarker(c)
      BY <1>0, <3>5 DEF SyncFails, DeltaFails, ApplyChanges, Capture, CaptureFails, RecordMarker,
           SyncType
    <3> QED BY <1>3, <3>1, <3>2, <3>3, <3>4, <3>5 DEF Step, Sync
  <2> QED BY <1>0, <2>1, <2>2, <2>3 DEF ListAt
<1> QED BY <1>1, <1>2, <1>3 DEF Next

LEMMA TypeInvInductive ==
    /\ Init => TypeInv
    /\ TypeInv /\ [Next]_vars => TypeInv'
<1>1. Init => ListAt
  BY DEF Init, ListAt, NoSync
<1> QED BY <1>1, InitType, TypeStep, ListStep DEF TypeInv

\* Type correctness: no sync ever holds or records a position the provider's
\* history does not have, or a message that does not exist.
THEOREM MailTypesHold == Spec => []TypeOK
<1>1. TypeInv => TypeOK
  BY DEF TypeInv
<1> QED BY <1>1, TypeInvInductive, PTL DEF Spec

-----------------------------------------------------------------------------
(* The lock *)

\* A caller has a sync exactly while it says so, and only those that take the
\* lock come to a release.
LockInv ==
    /\ LockedAlone
    /\ \A c \in Callers : sync[c].pc # "none" => call[c] = "sync"
    /\ \A c \in Callers \ Lockers : call[c] # "release"

LEMMA LockInit == Init => LockInv
BY DEF Init, LockInv, LockedAlone, NoSync, Callers

\* What a sync does between its start and its return does not touch the lock.
LEMMA SyncFrame ==
    ASSUME TypeOK, NEW c \in Callers, Sync(c)
    PROVE  /\ UNCHANGED <<call, lock>>
           /\ sync[c].pc # "none"
           /\ \A d \in Callers \ {c} : sync'[d] = sync[d]
<1>1. UNCHANGED <<call, lock>>
  BY DEF Sync, ReadMarker, SyncFails, FetchDelta, DeltaFails, ClearMarker, FetchMessage,
         MessageFails, ApplyChanges, Capture, CaptureFails, RecordMarker
<1>2. sync[c].pc # "none"
  BY DEF Sync, ReadMarker, SyncFails, FetchDelta, DeltaFails, ClearMarker, FetchMessage,
         MessageFails, ApplyChanges, Capture, CaptureFails, RecordMarker
<1>3. \A d \in Callers \ {c} : sync'[d] = sync[d]
  BY SyncTyped DEF Sync, ReadMarker, SyncFails, FetchDelta, DeltaFails, ClearMarker,
         FetchMessage, MessageFails, ApplyChanges, Capture, CaptureFails, RecordMarker
<1> QED BY <1>1, <1>2, <1>3

LEMMA LockStep == TypeOK /\ LockInv /\ [Next]_vars => LockInv'
<1> SUFFICES ASSUME TypeOK, LockInv, [Next]_vars PROVE LockInv'
  OBVIOUS
<1>0. /\ lock \in Lockers \cup {Nobody} /\ Nobody \notin Callers
      /\ call \in [Callers -> {"idle", "sync", "release", "hung"}]
      /\ DOMAIN sync = Callers /\ Lockers \cap Senders = {} /\ Lockers \subseteq Callers
      /\ \A c \in Callers : sync[c] \in SyncType(Len(log))
  BY SyncTyped, MailSyncAssumption DEF Lockers, Callers
<1>1. CASE Forget \/ \E m \in Msgs : Change(m)
  BY <1>1 DEF LockInv, LockedAlone, Forget, Change
<1>2. ASSUME NEW c \in Callers, Request(c) PROVE LockInv'
  <2>1. \A d \in Callers \ {c} : call'[d] = call[d] /\ sync'[d] = sync[d]
    BY <1>0, <1>2 DEF Request, BeginSync
  <2>2. call'[c] = "sync"
    BY <1>0, <1>2 DEF Request
  <2>3. CASE c \in Senders
    <3>1. lock' = lock
      BY <1>2, <2>3 DEF Request
    <3> QED BY <1>0, <2>1, <2>2, <2>3, <3>1 DEF LockInv, LockedAlone
  <2>4. CASE c \notin Senders
    <3>1. lock = Nobody /\ lock' = c
      BY <1>2, <2>4 DEF Request
    <3> QED BY <1>0, <2>1, <2>2, <2>4, <3>1 DEF LockInv, LockedAlone, Callers
  <2> QED BY <2>3, <2>4
<1>3. ASSUME NEW c \in Callers, SyncReturns(c) \/ StartHangs(c) PROVE LockInv'
  <2>1. \A d \in Callers \ {c} : call'[d] = call[d] /\ sync'[d] = sync[d]
    BY <1>0, <1>3 DEF SyncReturns, StartHangs
  <2>2. call[c] = "sync" /\ sync'[c].pc = "none" /\ lock' = lock
    BY <1>0, <1>3 DEF SyncReturns, StartHangs, LockInv, NoSync
  <2>3. call'[c] = "idle" \/ c \in Lockers
    BY <1>0, <1>3 DEF SyncReturns, StartHangs, Callers, Lockers
  <2>4. call'[c] \in {"idle", "release", "hung"}
    BY <1>0, <1>3 DEF SyncReturns, StartHangs
  <2> QED BY <1>0, <2>1, <2>2, <2>3, <2>4 DEF LockInv, LockedAlone
<1>7. ASSUME NEW c \in Callers, SyncTimesOut(c) PROVE LockInv'
  <2>1. /\ \A d \in Callers \ {c} : sync'[d] = sync[d]
        /\ sync[c].pc # "none" /\ call' = call /\ lock' = lock
    BY <1>0, <1>7 DEF SyncTimesOut
  <2> QED BY <2>1 DEF LockInv, LockedAlone
<1>4. ASSUME NEW c \in Callers, Release(c) PROVE LockInv'
  <2>1. \A d \in Callers \ {c} : call'[d] = call[d]
    BY <1>0, <1>4 DEF Release
  <2>2. call[c] = "release" /\ call'[c] = "idle" /\ lock' = Nobody /\ sync' = sync
    BY <1>0, <1>4 DEF Release
  <2>3. \A d \in Lockers \ {c} : call[d] = "idle"
    BY <1>0, <2>2 DEF LockInv, LockedAlone
  <2> QED BY <1>0, <2>1, <2>2, <2>3 DEF LockInv, LockedAlone
<1>5. ASSUME NEW c \in Callers, Sync(c) PROVE LockInv'
  BY <1>5, SyncFrame DEF LockInv, LockedAlone
<1>6. CASE UNCHANGED vars
  BY <1>6 DEF LockInv, LockedAlone, vars
<1> QED BY <1>1, <1>2, <1>3, <1>4, <1>5, <1>6, <1>7 DEF Next, Step

\* However many requests, polls and timeouts meet, at most one of the callers
\* that take the lock is between its acquire and its release.
THEOREM LockExcludes == Spec => []LockedAlone
<1>1. TypeInv /\ LockInv /\ [Next]_vars => (TypeInv /\ LockInv)'
  BY TypeInvInductive, LockStep DEF TypeInv
<1>2. LockInv => LockedAlone
  BY DEF LockInv
<1> QED BY <1>1, <1>2, TypeInvInductive, LockInit, PTL DEF Spec

-----------------------------------------------------------------------------
(* The rows *)

Recorded(kind, m) == \E i \in 1..Len(log) : log[i].kind = kind /\ log[i].msg = m

\* The history against the mailbox: after each record of a message comes the
\* one that put the message where it is now, and nothing is recorded of a
\* message before it was added.
LogTells ==
    /\ \A i \in 1..Len(log) :
          \E k \in i..Len(log) : log[k].msg = log[i].msg /\ After[log[k].kind] = server[log[i].msg]
    /\ \A i, k \in 1..Len(log) : log[k].kind = "add" /\ log[i].msg = log[k].msg => k <= i
    /\ \A i \in 1..Len(log) : /\ server[log[i].msg] # "none"
                              /\ log[i].kind = "delete" => server[log[i].msg] = "gone"
    /\ \A m \in Msgs : server[m] = "trash" => Recorded("trash", m)

\* A row is of a message that exists, and what it says, as what a delta
\* answers, was true once.
RowsRecorded ==
    \A m \in Msgs :
        /\ local[m] # "none" => server[m] # "none"
        /\ local[m] = "trash" => Recorded("trash", m)
        /\ local[m] = "deleted" => Recorded("delete", m)

\* Until the first overlap at most one sync is at work.
SyncsAlone == \A c, d \in Syncing : c = d

\* No record after a position touches the message.
Still(m, from) == \A i \in (from + 1)..Len(log) : log[i].msg # m

\* The rows that no delta since the stored marker would touch are right.
MarkerRight ==
    marker # NoMarker => \A m \in Msgs \ missed : Still(m, marker) => Agrees(m)

DeltaRight(c) == sync[c].pc = "delta" => sync[c].at = marker /\ marker # NoMarker

\* What a listing has handed out is right, but for the rows of deleted messages.
ListRight(c) ==
    sync[c].pc = "list" =>
        /\ marker = NoMarker /\ sync[c].at # NoMarker
        /\ \A m \in Msgs \ (sync[c].todo \cup sync[c].passed) :
              Still(m, sync[c].at) => Agrees(m) \/ server[m] = "gone"

\* What a delta will do to the row of a message that it does not pass over and
\* that does not change again.
FetchedRight(s, m) ==
    /\ m \in s.trashed =>
          /\ server[m] \in {"trash", "gone"}
          /\ m \in s.todo \/ local[m] # "none" \/ server[m] = "gone"
    /\ m \in s.restored \ s.trashed =>
          server[m] = "inbox" /\ (m \in s.todo \/ local[m] # "none")
    /\ m \in s.deleted \ (s.trashed \cup s.restored) => server[m] = "gone"
    /\ m \notin s.trashed \cup s.restored \cup s.deleted =>
          \/ m \in missed \/ Agrees(m)
          \/ m \in s.todo /\ server[m] = "inbox" /\ local[m] \in {"none", "inbox"}

FetchRight(c) ==
    sync[c].pc = "fetch" =>
        /\ marker # NoMarker /\ sync[c].at # NoMarker
        /\ \A m \in sync[c].trashed \cup sync[c].restored \cup sync[c].deleted : ~Still(m, marker)
        /\ \A m \in Msgs \ sync[c].passed : Still(m, sync[c].at) => FetchedRight(sync[c], m)

\* What a sync is about to record is right.
RecordRight(c) ==
    sync[c].pc = "record" =>
        /\ sync[c].at # NoMarker
        /\ \A m \in Msgs \ (missed \cup sync[c].passed) : Still(m, sync[c].at) => Agrees(m)

RowsRight ==
    ~overlap =>
        /\ SyncsAlone /\ MarkerRight
        /\ \A c \in Callers : DeltaRight(c) /\ ListRight(c) /\ FetchRight(c) /\ RecordRight(c)

SyncRecorded ==
    \A c \in Callers, m \in Msgs :
        /\ m \in sync[c].trashed => Recorded("trash", m)
        /\ m \in sync[c].deleted => Recorded("delete", m)

RowsInv == LogTells /\ RowsRecorded /\ SyncRecorded /\ RowsRight

\* The history, as the proofs use it.
LEMMA LogTyped ==
    ASSUME TypeOK
    PROVE  /\ Len(log) \in Nat /\ log \in Seq(Record) /\ \A i \in 1..Len(log) : log[i] \in Record
           /\ \A i \in 1..Len(log) : log[i].msg \in Msgs /\ log[i].kind \in DOMAIN After
<1>1. log \in Seq(Record) /\ Len(log) \in Nat
  BY SyncTyped, LenProperties
<1>2. \A i \in 1..Len(log) : log[i] \in Record
  BY <1>1, ElementOfSeq
<1> QED BY <1>1, <1>2 DEF Record

\* A change of the mailbox appends one record.
LEMMA Appended ==
    ASSUME TypeOK, NEW m \in Msgs, Change(m)
    PROVE  \E kind \in DOMAIN After :
             /\ Legal(kind, server[m])
             /\ server' = [server EXCEPT ![m] = After[kind]]
             /\ Len(log') = Len(log) + 1
             /\ log'[Len(log) + 1] = [kind |-> kind, msg |-> m]
             /\ \A i \in 1..Len(log) : log'[i] = log[i]
<1>1. PICK kind \in DOMAIN After :
        /\ Legal(kind, server[m])
        /\ server' = [server EXCEPT ![m] = After[kind]]
        /\ log' = Append(log, [kind |-> kind, msg |-> m])
  BY DEF Change
<1>2. [kind |-> kind, msg |-> m] \in Record
  BY DEF Record
<1>3. log \in Seq(Record)
  BY LogTyped
<1> DEFINE r == [kind |-> kind, msg |-> m]
<1> HIDE DEF r
<1>4. /\ Len(log') = Len(log) + 1 /\ log'[Len(log) + 1] = r
      /\ \A i \in 1..Len(log) : log'[i] = log[i]
  <2>1. r \in Record /\ log' = Append(log, r)
    BY <1>1, <1>2 DEF r
  <2> QED BY <2>1, <1>3, AppendProperties
<1> QED BY <1>1, <1>4 DEF r

\* What a change leaves true of the records.
LEMMA RecordedGrows ==
    ASSUME TypeOK, NEW m \in Msgs, Change(m), NEW x \in Msgs, NEW k, Recorded(k, x)
    PROVE  Recorded(k, x)'
<1>1. Len(log) \in Nat /\ Len(log') = Len(log) + 1 /\ \A i \in 1..Len(log) : log'[i] = log[i]
  BY LogTyped, Appended
<1>2. PICK i \in 1..Len(log) : log[i].kind = k /\ log[i].msg = x
  BY DEF Recorded
<1>3. i \in 1..Len(log') /\ log'[i].kind = k /\ log'[i].msg = x
  BY <1>1, <1>2
<1> QED BY <1>3 DEF Recorded

LEMMA StillNoMore ==
    ASSUME TypeOK, NEW m \in Msgs, Change(m), NEW from \in 0..Len(log), NEW x, Still(x, from)'
    PROVE  Still(x, from) /\ x # m
<1>1. PICK kind \in DOMAIN After :
        /\ Len(log') = Len(log) + 1
        /\ log'[Len(log) + 1] = [kind |-> kind, msg |-> m]
        /\ \A i \in 1..Len(log) : log'[i] = log[i]
  BY Appended
<1>2. Len(log) \in Nat
  BY LogTyped
<1>3. Len(log) + 1 \in (from + 1)..Len(log') /\ log'[Len(log) + 1].msg = m
  BY <1>1, <1>2
<1>4. \A i \in (from + 1)..Len(log) : i \in (from + 1)..Len(log') /\ log'[i] = log[i]
  BY <1>1, <1>2
<1> QED BY <1>3, <1>4 DEF Still

LEMMA LogChange ==
    ASSUME TypeOK, LogTells, NEW m \in Msgs, Change(m) PROVE LogTells'
<1>1. PICK kind \in DOMAIN After :
        /\ Legal(kind, server[m])
        /\ server' = [server EXCEPT ![m] = After[kind]]
        /\ Len(log') = Len(log) + 1
        /\ log'[Len(log) + 1] = [kind |-> kind, msg |-> m]
        /\ \A i \in 1..Len(log) : log'[i] = log[i]
  BY Appended
<1> DEFINE n == Len(log) + 1
<1>2. Len(log) \in Nat /\ \A i \in 1..Len(log) : log[i].msg \in Msgs
  BY LogTyped
<1>3. \A i \in 1..Len(log') : i = n \/ i \in 1..Len(log)
  BY <1>1, <1>2
<1>4. n \in 1..Len(log') /\ log'[n].msg = m /\ log'[n].kind = kind /\ n \notin 1..Len(log)
  BY <1>1, <1>2
<1>5. server'[m] = After[kind] /\ \A x \in Msgs \ {m} : server'[x] = server[x]
  BY <1>1, SyncTyped
<1>6. kind \in {"add", "trash", "restore", "delete"}
  BY DEF After
<1>7. \A i \in 1..Len(log) : i \in 1..Len(log') /\ log'[i] = log[i] /\ i < n
  BY <1>1, <1>2
<1>8. ASSUME NEW i \in 1..Len(log')
      PROVE  \E k \in i..Len(log') : log'[k].msg = log'[i].msg /\ After[log'[k].kind] = server'[log'[i].msg]
  <2>1. CASE log'[i].msg = m
    <3>1. n \in i..Len(log')
      BY <1>1, <1>2
    <3> QED BY <3>1, <2>1, <1>4, <1>5
  <2>2. CASE log'[i].msg # m
    <3>1. i \in 1..Len(log) /\ log'[i] = log[i] /\ log[i].msg \in Msgs
      BY <2>2, <1>2, <1>3, <1>4, <1>7
    <3>2. PICK k \in i..Len(log) : log[k].msg = log[i].msg /\ After[log[k].kind] = server[log[i].msg]
      BY <3>1 DEF LogTells
    <3>3. k \in 1..Len(log) /\ k \in i..Len(log')
      BY <3>1, <1>1, <1>2
    <3>4. log'[k] = log[k] /\ server'[log[i].msg] = server[log[i].msg]
      BY <3>3, <3>1, <2>2, <1>5, <1>7
    <3> QED BY <3>1, <3>2, <3>3, <3>4
  <2> QED BY <2>1, <2>2
<1>9. ASSUME NEW i \in 1..Len(log'), NEW k \in 1..Len(log'), log'[k].kind = "add", log'[i].msg = log'[k].msg
      PROVE  k <= i
  <2>1. CASE k = n /\ i = n
    BY <2>1, <1>2
  <2>2. CASE k = n /\ i \in 1..Len(log)
    <3>1. server[m] = "none"
      BY <2>2, <1>1, <1>4, <1>9 DEF Legal
    <3>2. log[i].msg = m
      BY <2>2, <1>4, <1>7, <1>9
    <3> QED BY <3>1, <3>2, <2>2 DEF LogTells
  <2>3. CASE k \in 1..Len(log) /\ i = n
    BY <2>3, <1>2
  <2>4. CASE k \in 1..Len(log) /\ i \in 1..Len(log)
    BY <2>4, <1>7, <1>9 DEF LogTells
  <2> QED BY <2>1, <2>2, <2>3, <2>4, <1>3
<1>10. ASSUME NEW i \in 1..Len(log')
       PROVE  server'[log'[i].msg] # "none" /\ (log'[i].kind = "delete" => server'[log'[i].msg] = "gone")
  <2>1. server'[m] # "none" /\ (kind = "delete" => server'[m] = "gone")
    BY <1>5, <1>6 DEF After
  <2>2. CASE i = n
    BY <2>1, <2>2, <1>4
  <2>3. CASE i \in 1..Len(log) /\ log[i].msg # m
    BY <2>3, <1>2, <1>5, <1>7 DEF LogTells
  <2>4. CASE i \in 1..Len(log) /\ log[i].msg = m
    <3>1. log[i].kind = "delete" => server[m] = "gone"
      BY <2>4 DEF LogTells
    <3>2. server[m] # "gone"
      BY <1>1, <1>6 DEF Legal
    <3> QED BY <2>1, <2>4, <3>1, <3>2, <1>7
  <2> QED BY <2>2, <2>3, <2>4, <1>3
<1>11. ASSUME NEW x \in Msgs, server'[x] = "trash" PROVE Recorded("trash", x)'
  <2>1. CASE x = m
    <3>1. kind = "trash"
      BY <2>1, <1>11, <1>5, <1>6 DEF After
    <3> QED BY <3>1, <2>1, <1>4 DEF Recorded
  <2>2. CASE x # m
    BY <2>2, <1>11, <1>5, RecordedGrows DEF LogTells
  <2> QED BY <2>1, <2>2
<1> HIDE DEF n
<1> QED BY <1>8, <1>9, <1>10, <1>11 DEF LogTells

\* Nothing but a change touches the mailbox.
LEMMA MailboxSame ==
    ASSUME NEW c \in Callers, Request(c) \/ Step(c) PROVE UNCHANGED <<server, log, horizon>>
BY DEF mailbox, Request, Step, Sync, ReadMarker, SyncFails, FetchDelta, DeltaFails,
       ClearMarker, FetchMessage, MessageFails, ApplyChanges, Capture, CaptureFails,
       RecordMarker, SyncReturns, SyncTimesOut, StartHangs, Release

LEMMA LogStep == TypeOK /\ LogTells /\ [Next]_vars => LogTells'
<1> SUFFICES ASSUME TypeOK, LogTells, [Next]_vars PROVE LogTells'
  OBVIOUS
<1>1. CASE \E m \in Msgs : Change(m)
  BY <1>1, LogChange
<1>2. CASE UNCHANGED <<server, log>>
  <2>1. server' = server /\ log' = log
    BY <1>2
  <2>2. \A m \in Msgs : Recorded("trash", m) => Recorded("trash", m)'
    BY <2>1 DEF Recorded
  <2>3. \A m \in Msgs : server'[m] = "trash" => Recorded("trash", m)'
    BY <2>1, <2>2 DEF LogTells
  <2> QED BY <2>1, <2>3 DEF LogTells
<1>3. CASE Forget \/ UNCHANGED vars
  BY <1>2, <1>3 DEF Forget, vars, mailbox
<1>4. CASE \E c \in Callers : Request(c) \/ Step(c)
  BY <1>2, <1>4, MailboxSame
<1> QED BY <1>1, <1>3, <1>4 DEF Next

\* What one answer of the history shows: up to where, and of which kind.
PageEnd(from) == IF from + HistoryPage < Len(log) THEN from + HistoryPage ELSE Len(log)

Shown(kind, m, from) == \E i \in (from + 1)..PageEnd(from) : log[i].kind = kind /\ log[i].msg = m

LEMMA PageShows ==
    ASSUME TypeOK, NEW from \in 0..Len(log), NEW kind, NEW m
    PROVE  m \in Of(kind, SubSeq(log, from + 1, PageEnd(from))) <=> Shown(kind, m, from)
<1> DEFINE to == PageEnd(from)
           page == SubSeq(log, from + 1, to)
<1>1. Len(log) \in Nat /\ from \in Nat /\ to \in Nat /\ from <= to /\ to <= Len(log)
  BY LogTyped, MailSyncAssumption DEF PageEnd
<1>2. DOMAIN page = 1..(to - from) /\ \A i \in 1..(to - from) : page[i] = log[from + i]
  <2> HIDE DEF to
  <2>1. Len(page) = to - from /\ page \in Seq(Record)
    <3>1. \A i \in (from + 1)..to : log[i] \in Record
      BY <1>1, LogTyped
    <3> QED BY <1>1, <3>1, SubSeqProperties
  <2>2. DOMAIN page = 1..Len(page)
    BY <2>1, LenProperties
  <2>3. \A i \in 1..(to - from) : page[i] = log[from + i]
    BY <1>1
  <2> QED BY <2>1, <2>2, <2>3
<1> HIDE DEF page, to
<1>3. ASSUME NEW i \in 1..(to - from) PROVE from + i \in (from + 1)..to
  BY <1>1
<1>4. ASSUME NEW i \in (from + 1)..to PROVE i - from \in 1..(to - from) /\ from + (i - from) = i
  BY <1>1
<1>5. m \in Of(kind, page) => \E i \in (from + 1)..to : log[i].kind = kind /\ log[i].msg = m
  BY <1>2, <1>3 DEF Of
<1>6. (\E i \in (from + 1)..to : log[i].kind = kind /\ log[i].msg = m) => m \in Of(kind, page)
  <2> SUFFICES ASSUME NEW i \in (from + 1)..to, log[i].kind = kind, log[i].msg = m PROVE m \in Of(kind, page)
    OBVIOUS
  <2>1. i - from \in DOMAIN page /\ page[i - from] = log[i]
    BY <1>2, <1>4
  <2> QED BY <2>1 DEF Of
<1> QED BY <1>5, <1>6 DEF Shown, page, to

\* What a delta has in hand after the answer.
LEMMA DeltaAnswers ==
    ASSUME TypeOK, NEW c \in Callers, FetchDelta(c)
    PROVE  LET from == sync[c].at
           IN  /\ \A d \in Callers \ {c} : sync'[d] = sync[d]
               /\ \/ sync'[c] = [NoSync EXCEPT !.pc = "ok", !.forgotten = TRUE]
                  \/ /\ from \in 0..Len(log)
                     /\ sync'[c].pc = "fetch" /\ sync'[c].at = Len(log)
                     /\ \A m : /\ m \in sync'[c].todo <=>
                                     Shown("add", m, from) \/ Shown("trash", m, from) \/ Shown("restore", m, from)
                               /\ m \in sync'[c].trashed <=> Shown("trash", m, from)
                               /\ m \in sync'[c].restored <=> Shown("restore", m, from)
                               /\ m \in sync'[c].deleted <=> Shown("delete", m, from)
                     /\ Touched(from + HistoryPage, Len(log)) \subseteq sync'[c].passed
                     /\ \A m : Shown("restore", m, from) /\ Shown("trash", m, from) /\ server[m] = "inbox"
                               => m \in sync'[c].passed
                     /\ \A m : Shown("restore", m, from) /\ ~Shown("trash", m, from) /\ Shown("delete", m, from)
                               => m \in sync'[c].passed
<1> DEFINE from == sync[c].at
           page == SubSeq(log, from + 1, PageEnd(from))
           answer == [pc |-> "fetch", at |-> Len(log), forgotten |-> FALSE,
                      todo |-> Of("add", page) \cup Of("trash", page) \cup Of("restore", page),
                      trashed |-> Of("trash", page), restored |-> Of("restore", page),
                      deleted |-> Of("delete", page), passed |-> PassedOver(page, from)]
<1>1. /\ DOMAIN sync = Callers /\ from \in {NoMarker} \cup 0..Len(log) /\ horizon \in 0..Len(log)
  BY SyncTyped DEF SyncType
<1>2. Len(log) \in Nat
  BY LogTyped
<1>3. sync' = [sync EXCEPT ![c] = IF from < horizon THEN [NoSync EXCEPT !.pc = "ok", !.forgotten = TRUE] ELSE answer]
  BY DEF FetchDelta, PageEnd
<1> HIDE DEF answer
<1>4. \A d \in Callers \ {c} : sync'[d] = sync[d]
  BY <1>1, <1>3
<1>5. CASE from < horizon
  <2>1. sync'[c] = [NoSync EXCEPT !.pc = "ok", !.forgotten = TRUE]
    BY <1>1, <1>3, <1>5
  <2> QED BY <1>4, <2>1
<1>6. CASE ~(from < horizon)
  <2>1. sync'[c] = answer
    BY <1>1, <1>3, <1>6
  <2>2. from \in 0..Len(log)
    BY <1>1, <1>2, <1>6 DEF NoMarker
  <2>3. \A k, m : m \in Of(k, page) <=> Shown(k, m, from)
    BY <2>2, PageShows
  <2> HIDE DEF page, from
  <2>4. answer.passed = PassedOver(page, from) /\ answer.pc = "fetch" /\ answer.at = Len(log)
    BY DEF answer
  <2>5. \A m : Shown("restore", m, from) /\ Shown("trash", m, from) /\ server[m] = "inbox" => m \in PassedOver(page, from)
    BY <2>3 DEF PassedOver
  <2>6. \A m : Shown("restore", m, from) /\ ~Shown("trash", m, from) /\ Shown("delete", m, from)
               => m \in PassedOver(page, from)
    BY <2>3 DEF PassedOver
  <2>7. Touched(from + HistoryPage, Len(log)) \subseteq PassedOver(page, from)
    BY DEF PassedOver
  <2>8. \A m : /\ m \in answer.todo <=> Shown("add", m, from) \/ Shown("trash", m, from) \/ Shown("restore", m, from)
               /\ m \in answer.trashed <=> Shown("trash", m, from)
               /\ m \in answer.restored <=> Shown("restore", m, from)
               /\ m \in answer.deleted <=> Shown("delete", m, from)
    BY <2>3 DEF answer
  <2> QED BY <1>4, <2>1, <2>2, <2>4, <2>5, <2>6, <2>7, <2>8 DEF from
<1> QED BY <1>5, <1>6

LEMMA ShownIsRecorded ==
    ASSUME TypeOK, NEW from \in 0..Len(log), NEW kind, NEW m, Shown(kind, m, from)
    PROVE  Recorded(kind, m)
<1>1. Len(log) \in Nat /\ PageEnd(from) <= Len(log) /\ PageEnd(from) \in Int
  BY LogTyped, MailSyncAssumption DEF PageEnd
<1>2. PICK i \in (from + 1)..PageEnd(from) : log[i].kind = kind /\ log[i].msg = m
  BY DEF Shown
<1>3. i \in 1..Len(log)
  BY <1>1, <1>2
<1> QED BY <1>2, <1>3 DEF Recorded

\* The label changes of an answer, applied to the row of a message.
LEMMA Applied ==
    ASSUME TypeOK, NEW c \in Callers, ApplyChanges(c), NEW m \in Msgs
    PROVE  LET s == sync[c]
           IN  /\ local[m] = "none" => local'[m] = "none"
               /\ local[m] # "none" /\ m \in s.trashed => local'[m] = "trash"
               /\ local[m] # "none" /\ m \in s.restored \ s.trashed => local'[m] = "inbox"
               /\ local[m] # "none" /\ m \in s.deleted \ (s.trashed \cup s.restored) => local'[m] = "deleted"
               /\ m \notin s.trashed \cup s.restored \cup s.deleted => local'[m] = local[m]
BY DEF ApplyChanges

LEMMA RecordsFrame ==
    ASSUME RowsRecorded, SyncRecorded, UNCHANGED <<server, log>>, local' = local,
           \A d \in Callers : sync'[d].trashed \subseteq sync[d].trashed /\ sync'[d].deleted \subseteq sync[d].deleted
    PROVE  RowsRecorded' /\ SyncRecorded'
<1>1. \A k, m : Recorded(k, m) => Recorded(k, m)'
  BY DEF Recorded
<1>2. RowsRecorded'
  BY <1>1 DEF RowsRecorded
<1>3. SyncRecorded'
  BY <1>1 DEF SyncRecorded
<1> QED BY <1>2, <1>3

LEMMA RecordsStep ==
    TypeOK /\ LogTells /\ RowsRecorded /\ SyncRecorded /\ [Next]_vars => RowsRecorded' /\ SyncRecorded'
<1> SUFFICES ASSUME TypeOK, LogTells, RowsRecorded, SyncRecorded, [Next]_vars PROVE RowsRecorded' /\ SyncRecorded'
  OBVIOUS
<1>0. /\ DOMAIN sync = Callers /\ \A d \in Callers : sync[d] \in SyncType(Len(log))
      /\ Len(log) \in Nat /\ DOMAIN local = Msgs
  BY SyncTyped, LogTyped
<1>1. ASSUME NEW m \in Msgs, Change(m) PROVE RowsRecorded' /\ SyncRecorded'
  <2>1. local' = local /\ sync' = sync
    BY <1>1 DEF Change
  <2>2. \A k, x : x \in Msgs /\ Recorded(k, x) => Recorded(k, x)'
    BY <1>1, RecordedGrows
  <2>3. \A x \in Msgs : server[x] # "none" => server'[x] # "none"
    <3>1. PICK kind \in DOMAIN After : server' = [server EXCEPT ![m] = After[kind]]
      BY <1>1, Appended
    <3>2. server'[m] # "none" /\ \A x \in Msgs \ {m} : server'[x] = server[x]
      BY <3>1, SyncTyped DEF After
    <3> QED BY <3>2
  <2>4. RowsRecorded'
    BY <2>1, <2>2, <2>3 DEF RowsRecorded
  <2>5. SyncRecorded'
    BY <2>1, <2>2 DEF SyncRecorded
  <2> QED BY <2>4, <2>5
<1>2. CASE Forget \/ UNCHANGED vars
  <2>1. UNCHANGED <<server, log, local, sync>>
    BY <1>2 DEF Forget, vars, mailbox
  <2> QED BY <2>1, RecordsFrame
<1>3. ASSUME NEW c \in Callers, Request(c) \/ Step(c) PROVE RowsRecorded' /\ SyncRecorded'
  <2>0. server' = server /\ log' = log
    BY <1>3, MailboxSame
  <2>a. \A k, m : Recorded(k, m) <=> Recorded(k, m)'
    BY <2>0 DEF Recorded
  <2>1. CASE Request(c) \/ SyncReturns(c) \/ SyncTimesOut(c) \/ StartHangs(c) \/ Release(c)
    <3>1. local' = local
      BY <2>1 DEF Request, SyncReturns, SyncTimesOut, StartHangs, Release
    <3>2. \A d \in Callers : sync'[d].trashed \subseteq sync[d].trashed /\ sync'[d].deleted \subseteq sync[d].deleted
      BY <2>1, <1>0 DEF Request, BeginSync, SyncReturns, SyncTimesOut, StartHangs, Release, NoSync, SyncType
    <3> QED BY <2>0, <3>1, <3>2, RecordsFrame
  <2>2. CASE ReadMarker(c) \/ ClearMarker(c)
    <3>1. local' = local
      BY <2>2 DEF ReadMarker, ClearMarker
    <3>2. \A d \in Callers : sync'[d].trashed \subseteq sync[d].trashed /\ sync'[d].deleted \subseteq sync[d].deleted
      <4>1. sync'[c] = Listing \/ sync'[c] = [NoSync EXCEPT !.pc = "delta", !.at = marker]
        BY <2>2, <1>0 DEF ReadMarker, ClearMarker
      <4>2. sync'[c].trashed = {} /\ sync'[c].deleted = {}
        BY <4>1 DEF NoSync, Listing
      <4>3. \A d \in Callers \ {c} : sync'[d] = sync[d]
        BY <2>2, <1>0 DEF ReadMarker, ClearMarker
      <4> QED BY <4>2, <4>3
    <3> QED BY <2>0, <3>1, <3>2, RecordsFrame
  <2>3. CASE SyncFails(c) \/ DeltaFails(c) \/ MessageFails(c) \/ Capture(c) \/ CaptureFails(c) \/ RecordMarker(c)
    <3>1. local' = local
      BY <2>3 DEF SyncFails, DeltaFails, MessageFails, Capture, CaptureFails, RecordMarker
    <3>2. \A d \in Callers : sync'[d].trashed \subseteq sync[d].trashed /\ sync'[d].deleted \subseteq sync[d].deleted
      <4>1. \A d \in Callers \ {c} : sync'[d] = sync[d]
        BY <2>3, <1>0 DEF SyncFails, DeltaFails, MessageFails, Capture, CaptureFails, RecordMarker
      <4>2. CASE MessageFails(c)
        BY <4>2, <1>0 DEF MessageFails, SyncType
      <4>3. CASE Capture(c)
        BY <4>3, <1>0 DEF Capture, SyncType
      <4>4. CASE SyncFails(c) \/ DeltaFails(c) \/ CaptureFails(c) \/ RecordMarker(c)
        BY <4>4, <1>0 DEF SyncFails, DeltaFails, CaptureFails, RecordMarker, SyncType
      <4> QED BY <2>3, <4>2, <4>3, <4>4
    <3> QED BY <2>0, <3>1, <3>2, RecordsFrame
  <2>4. CASE FetchDelta(c)
    <3>1. local' = local
      BY <2>4 DEF FetchDelta
    <3>2. RowsRecorded'
      BY <2>0, <2>a, <3>1 DEF RowsRecorded
    <3>3. \A d \in Callers \ {c} : sync'[d] = sync[d]
      BY <2>4, DeltaAnswers
    <3>4. ASSUME NEW m \in Msgs
          PROVE  (m \in sync'[c].trashed => Recorded("trash", m)) /\ (m \in sync'[c].deleted => Recorded("delete", m))
      <4>1. CASE sync'[c] = [NoSync EXCEPT !.pc = "ok", !.forgotten = TRUE]
        BY <4>1 DEF NoSync
      <4>2. CASE sync'[c] # [NoSync EXCEPT !.pc = "ok", !.forgotten = TRUE]
        <5>1. /\ sync[c].at \in 0..Len(log)
              /\ m \in sync'[c].trashed <=> Shown("trash", m, sync[c].at)
              /\ m \in sync'[c].deleted <=> Shown("delete", m, sync[c].at)
          BY <2>4, <4>2, DeltaAnswers
        <5> QED BY <5>1, ShownIsRecorded
      <4> QED BY <4>1, <4>2
    <3>5. SyncRecorded'
      BY <3>3, <3>4, <2>a DEF SyncRecorded
    <3> QED BY <3>2, <3>5
  <2>5. CASE FetchMessage(c)
    <3>1. PICK m \in sync[c].todo : Upsert(m) /\ sync' = [sync EXCEPT ![c].todo = @ \ {m}]
      BY <2>5 DEF FetchMessage
    <3>2. \A d \in Callers : sync'[d].trashed = sync[d].trashed /\ sync'[d].deleted = sync[d].deleted
      BY <3>1, <1>0 DEF SyncType
    <3>3. SyncRecorded'
      BY <3>2, <2>a DEF SyncRecorded
    <3>4. ASSUME NEW x \in Msgs PROVE local'[x] = local[x] \/ (server[x] \in {"inbox", "trash"} /\ local'[x] = server[x])
      BY <3>1, <1>0 DEF Upsert, Live
    <3>5. RowsRecorded'
      BY <3>4, <2>0, <2>a DEF RowsRecorded, LogTells
    <3> QED BY <3>3, <3>5
  <2>6. CASE ApplyChanges(c)
    <3>1. \A d \in Callers : sync'[d].trashed = sync[d].trashed /\ sync'[d].deleted = sync[d].deleted
      BY <2>6, <1>0 DEF ApplyChanges, SyncType
    <3>2. SyncRecorded'
      BY <3>1, <2>a DEF SyncRecorded
    <3>3. ASSUME NEW x \in Msgs
          PROVE  /\ local'[x] # "none" => local[x] # "none"
                 /\ local'[x] = "trash" => local[x] = "trash" \/ x \in sync[c].trashed
                 /\ local'[x] = "deleted" => local[x] = "deleted" \/ x \in sync[c].deleted
      BY <2>6, Applied
    <3>4. RowsRecorded'
      BY <3>3, <2>0, <2>a DEF RowsRecorded, SyncRecorded
    <3> QED BY <3>2, <3>4
  <2> QED BY <1>3, <2>1, <2>2, <2>3, <2>4, <2>5, <2>6 DEF Step, Sync
<1> QED BY <1>1, <1>2, <1>3 DEF Next

\* What one answer says of a message whose changes it shows to the end.
LEMMA AnswerTells ==
    ASSUME TypeOK, LogTells, RowsRecorded, NEW from \in 0..Len(log), NEW m \in Msgs,
           m \notin Touched(from + HistoryPage, Len(log))
    PROVE  /\ Shown("trash", m, from) => \/ server[m] \in {"trash", "gone"}
                                         \/ server[m] = "inbox" /\ Shown("restore", m, from)
           /\ Shown("restore", m, from) /\ ~Shown("trash", m, from) =>
                 \/ server[m] = "inbox"
                 \/ server[m] = "gone" /\ Shown("delete", m, from)
           /\ Shown("delete", m, from) => server[m] = "gone"
           /\ Shown("add", m, from) /\ ~Shown("trash", m, from) /\ ~Shown("restore", m, from) /\ ~Shown("delete", m, from)
                 => server[m] = "inbox" /\ local[m] \in {"none", "inbox"}
           /\ \/ Shown("add", m, from) \/ Shown("trash", m, from) \/ Shown("restore", m, from) \/ Shown("delete", m, from)
              \/ Still(m, from)
<1>0. /\ Len(log) \in Nat /\ from \in Nat /\ HistoryPage \in Nat /\ PageEnd(from) \in Nat /\ PageEnd(from) <= Len(log)
      /\ \A i \in 1..Len(log) : log[i].msg \in Msgs /\ log[i].kind \in DOMAIN After
  BY LogTyped, MailSyncAssumption DEF PageEnd
<1>1. ASSUME NEW i \in (from + 1)..Len(log), log[i].msg = m
      PROVE  Shown(log[i].kind, m, from) /\ log[i].kind \in {"add", "trash", "restore", "delete"}
  <2>1. i \notin (from + HistoryPage + 1)..Len(log)
    BY <1>1 DEF Touched
  <2>2. i \in (from + 1)..PageEnd(from)
    BY <2>1, <1>0 DEF PageEnd
  <2>3. i \in 1..Len(log)
    BY <1>0
  <2>4. log[i].kind \in {"add", "trash", "restore", "delete"}
    BY <2>3, <1>0 DEF After
  <2> QED BY <2>2, <2>4, <1>1 DEF Shown
<1>2. ASSUME NEW k, Shown(k, m, from)
      PROVE  \E i \in (from + 1)..Len(log) : log[i].kind = k /\ log[i].msg = m /\ i \in 1..Len(log)
  BY <1>0, <1>2 DEF Shown
<1> DEFINE Ends(i, j) == /\ log[j].msg = m /\ After[log[j].kind] = server[m]
                         /\ Shown(log[j].kind, m, from)
                         /\ log[j].kind \in {"add", "trash", "restore", "delete"}
                         /\ log[j].kind = "add" => j = i
<1>3. ASSUME NEW i \in 1..Len(log), from < i, log[i].msg = m
      PROVE  \E j \in i..Len(log) : Ends(i, j)
  <2>1. PICK j \in i..Len(log) : log[j].msg = m /\ After[log[j].kind] = server[m]
    BY <1>3 DEF LogTells
  <2>2. j \in (from + 1)..Len(log) /\ j \in 1..Len(log)
    BY <1>0, <1>3, <2>1
  <2>3. log[j].kind = "add" => j <= i
    BY <2>1, <2>2, <1>3 DEF LogTells
  <2>4. log[j].kind = "add" => j = i
    BY <2>3, <2>1, <1>0
  <2> QED BY <2>1, <2>2, <2>4, <1>1
<1>4. Shown("trash", m, from) => server[m] \in {"trash", "gone"} \/ (server[m] = "inbox" /\ Shown("restore", m, from))
  <2> SUFFICES ASSUME Shown("trash", m, from)
               PROVE  server[m] \in {"trash", "gone"} \/ (server[m] = "inbox" /\ Shown("restore", m, from))
    OBVIOUS
  <2>1. PICK i \in 1..Len(log) : from < i /\ log[i].kind = "trash" /\ log[i].msg = m
    BY <1>2, <1>0
  <2>2. PICK j \in i..Len(log) : Ends(i, j)
    <3> HIDE DEF Ends
    <3> QED BY <2>1, <1>3
  <2>3. log[j].kind # "add"
    BY <2>1, <2>2
  <2> QED BY <2>2, <2>3 DEF After
<1>5. Shown("restore", m, from) /\ ~Shown("trash", m, from) =>
         server[m] = "inbox" \/ (server[m] = "gone" /\ Shown("delete", m, from))
  <2> SUFFICES ASSUME Shown("restore", m, from), ~Shown("trash", m, from)
               PROVE  server[m] = "inbox" \/ (server[m] = "gone" /\ Shown("delete", m, from))
    OBVIOUS
  <2>1. PICK i \in 1..Len(log) : from < i /\ log[i].kind = "restore" /\ log[i].msg = m
    BY <1>2, <1>0
  <2>2. PICK j \in i..Len(log) : Ends(i, j)
    <3> HIDE DEF Ends
    <3> QED BY <2>1, <1>3
  <2>3. log[j].kind # "trash"
    BY <2>2
  <2> QED BY <2>2, <2>3 DEF After
<1>6. Shown("delete", m, from) => server[m] = "gone"
  BY <1>2 DEF LogTells
<1>7. Shown("add", m, from) /\ ~Shown("trash", m, from) /\ ~Shown("restore", m, from) /\ ~Shown("delete", m, from)
         => server[m] = "inbox" /\ local[m] \in {"none", "inbox"}
  <2> SUFFICES ASSUME Shown("add", m, from), ~Shown("trash", m, from), ~Shown("restore", m, from),
                      ~Shown("delete", m, from)
               PROVE  server[m] = "inbox" /\ local[m] \in {"none", "inbox"}
    OBVIOUS
  <2>1. PICK i \in 1..Len(log) : from < i /\ log[i].kind = "add" /\ log[i].msg = m
    BY <1>2, <1>0
  <2>2. PICK j \in i..Len(log) : Ends(i, j)
    <3> HIDE DEF Ends
    <3> QED BY <2>1, <1>3
  <2>3. log[j].kind = "add"
    BY <2>2
  <2>4. server[m] = "inbox"
    BY <2>2, <2>3 DEF After
  <2>5. ASSUME NEW k \in {"trash", "delete"}, Recorded(k, m) PROVE FALSE
    <3>1. PICK l \in 1..Len(log) : log[l].kind = k /\ log[l].msg = m
      BY <2>5 DEF Recorded
    <3>2. i <= l
      BY <2>1, <3>1 DEF LogTells
    <3>3. l \in (from + 1)..Len(log)
      BY <3>2, <2>1, <1>0
    <3>4. Shown(k, m, from)
      BY <1>1, <3>1, <3>3
    <3> QED BY <3>4, <2>5
  <2>6. local[m] \in {"none", "inbox", "trash", "deleted"}
    BY SyncTyped
  <2> QED BY <2>4, <2>5, <2>6 DEF RowsRecorded
<1>8. \/ Shown("add", m, from) \/ Shown("trash", m, from) \/ Shown("restore", m, from) \/ Shown("delete", m, from)
      \/ Still(m, from)
  <2> SUFFICES ASSUME ~Still(m, from)
               PROVE  \/ Shown("add", m, from) \/ Shown("trash", m, from)
                      \/ Shown("restore", m, from) \/ Shown("delete", m, from)
    OBVIOUS
  <2>1. PICK i \in (from + 1)..Len(log) : log[i].msg = m
    BY DEF Still
  <2> QED BY <2>1, <1>1
<1> QED BY <1>4, <1>5, <1>6, <1>7, <1>8

LEMMA ShownMoved ==
    ASSUME TypeOK, NEW from \in 0..Len(log), NEW k, NEW m, Shown(k, m, from)
    PROVE  ~Still(m, from)
<1>1. Len(log) \in Nat /\ PageEnd(from) <= Len(log) /\ PageEnd(from) \in Int
  BY LogTyped, MailSyncAssumption DEF PageEnd
<1>2. PICK i \in (from + 1)..PageEnd(from) : log[i].kind = k /\ log[i].msg = m
  BY DEF Shown
<1>3. i \in (from + 1)..Len(log)
  BY <1>1, <1>2
<1> QED BY <1>2, <1>3 DEF Still

\* A change of the mailbox: nothing is said any more of the message it touches.
LEMMA ChangeRows ==
    ASSUME TypeOK, RowsRight, NEW m \in Msgs, Change(m) PROVE RowsRight'
<1> SUFFICES ASSUME ~overlap' PROVE RowsRight'
  BY DEF RowsRight
<1>1. /\ UNCHANGED local /\ UNCHANGED marker /\ UNCHANGED sync /\ UNCHANGED missed /\ UNCHANGED overlap
  BY DEF Change
<1>2. /\ SyncsAlone /\ MarkerRight
      /\ \A c \in Callers : DeltaRight(c) /\ ListRight(c) /\ FetchRight(c) /\ RecordRight(c)
  BY <1>1 DEF RowsRight
<1>3. ASSUME NEW n \in 0..Len(log), NEW x, Still(x, n)' PROVE Still(x, n) /\ x # m
  BY <1>3, StillNoMore
<1>4. \A x \in Msgs \ {m} : server'[x] = server[x]
  <2>1. PICK kind \in DOMAIN After : server' = [server EXCEPT ![m] = After[kind]]
    BY Appended
  <2> QED BY <2>1, SyncTyped
<1>5. \A x \in Msgs \ {m} : Agrees(x)' <=> Agrees(x)
  BY <1>1, <1>4 DEF Agrees
<1>6. marker \in {NoMarker} \cup 0..Len(log) /\ \A c \in Callers : sync[c].at \in {NoMarker} \cup 0..Len(log)
  BY SyncTyped DEF SyncType
<1>7. SyncsAlone'
  BY <1>1, <1>2 DEF SyncsAlone, Syncing
<1>8. MarkerRight'
  <2> SUFFICES ASSUME marker # NoMarker, NEW x \in Msgs \ missed, Still(x, marker)' PROVE Agrees(x)'
    BY <1>1 DEF MarkerRight
  <2>1. Still(x, marker) /\ x # m
    BY <1>1, <1>3, <1>6 DEF Still
  <2> QED BY <2>1, <1>2, <1>5 DEF MarkerRight
<1>9. ASSUME NEW c \in Callers PROVE DeltaRight(c)' /\ ListRight(c)' /\ FetchRight(c)' /\ RecordRight(c)'
  <2>0. ASSUME NEW x \in Msgs, sync[c].at # NoMarker, Still(x, sync[c].at)'
        PROVE  Still(x, sync[c].at) /\ x # m
    <3>1. sync[c].at \in 0..Len(log) /\ sync' = sync
      BY <2>0, <1>6, <1>1
    <3> QED BY <2>0, <3>1, <1>3 DEF Still
  <2>1. DeltaRight(c)'
    BY <1>1, <1>2 DEF DeltaRight
  <2>2. ListRight(c)'
    <3> SUFFICES ASSUME sync[c].pc = "list"
                 PROVE  /\ marker = NoMarker /\ sync[c].at # NoMarker
                        /\ \A x \in Msgs \ (sync[c].todo \cup sync[c].passed) :
                              Still(x, sync[c].at)' => Agrees(x)' \/ server'[x] = "gone"
      BY <1>1 DEF ListRight
    <3>1. marker = NoMarker /\ sync[c].at # NoMarker
      BY <1>2 DEF ListRight
    <3>2. ASSUME NEW x \in Msgs \ (sync[c].todo \cup sync[c].passed), Still(x, sync[c].at)'
          PROVE  Agrees(x)' \/ server'[x] = "gone"
      <4>1. Still(x, sync[c].at) /\ x # m
        BY <2>0, <3>1, <3>2
      <4>2. Agrees(x) \/ server[x] = "gone"
        BY <4>1, <1>2 DEF ListRight
      <4> QED BY <4>1, <4>2, <1>4, <1>5
    <3> QED BY <3>1, <3>2
  <2>3. FetchRight(c)'
    <3> SUFFICES ASSUME sync[c].pc = "fetch" PROVE FetchRight(c)'
      BY <1>1 DEF FetchRight
    <3>1. /\ marker # NoMarker /\ sync[c].at # NoMarker
          /\ \A x \in sync[c].trashed \cup sync[c].restored \cup sync[c].deleted : ~Still(x, marker)
          /\ \A x \in Msgs \ sync[c].passed : Still(x, sync[c].at) => FetchedRight(sync[c], x)
      BY <1>2 DEF FetchRight
    <3>2. ASSUME NEW x, Still(x, marker)' PROVE Still(x, marker)
      BY <3>1, <3>2, <1>1, <1>3, <1>6 DEF Still
    <3>3. ASSUME NEW x \in Msgs \ sync[c].passed, Still(x, sync[c].at)' PROVE FetchedRight(sync[c], x)'
      <4>1. Still(x, sync[c].at) /\ x # m
        BY <2>0, <3>1, <3>3
      <4>2. FetchedRight(sync[c], x)
        BY <4>1, <3>1
      <4>3. server'[x] = server[x] /\ (Agrees(x)' <=> Agrees(x))
        BY <4>1, <1>4, <1>5
      <4> QED BY <4>2, <4>3, <1>1 DEF FetchedRight
    <3> QED BY <3>1, <3>2, <3>3, <1>1 DEF FetchRight
  <2>4. RecordRight(c)'
    <3> SUFFICES ASSUME sync[c].pc = "record"
                 PROVE  /\ sync[c].at # NoMarker
                        /\ \A x \in Msgs \ (missed \cup sync[c].passed) : Still(x, sync[c].at)' => Agrees(x)'
      BY <1>1 DEF RecordRight
    <3>1. sync[c].at # NoMarker
      BY <1>2 DEF RecordRight
    <3>2. ASSUME NEW x \in Msgs \ (missed \cup sync[c].passed), Still(x, sync[c].at)' PROVE Agrees(x)'
      <4>1. Still(x, sync[c].at) /\ x # m
        BY <2>0, <3>1, <3>2
      <4> QED BY <4>1, <1>2, <1>5 DEF RecordRight
    <3> QED BY <3>1, <3>2
  <2> QED BY <2>1, <2>2, <2>3, <2>4
<1> QED BY <1>1, <1>7, <1>8, <1>9 DEF RowsRight

\* A step of the only sync.
LEMMA OneSync ==
    ASSUME RowsRight, ~overlap, ~overlap', NEW c \in Callers, sync[c].pc # "none",
           \A d \in Callers \ {c} : sync'[d] = sync[d],
           MarkerRight', DeltaRight(c)', ListRight(c)', FetchRight(c)', RecordRight(c)'
    PROVE  RowsRight'
<1>1. \A d \in Callers \ {c} : sync'[d].pc = "none"
  BY DEF RowsRight, SyncsAlone, Syncing
<1>2. SyncsAlone'
  BY <1>1 DEF SyncsAlone, Syncing
<1>3. \A d \in Callers \ {c} : DeltaRight(d)' /\ ListRight(d)' /\ FetchRight(d)' /\ RecordRight(d)'
  BY <1>1 DEF DeltaRight, ListRight, FetchRight, RecordRight
<1> QED BY <1>2, <1>3 DEF RowsRight

\* With the rows, the mailbox and the marker untouched, what was said of them stays.
LEMMA SameRows ==
    ASSUME UNCHANGED <<server, log, local>>
    PROVE  /\ \A m : Agrees(m)' <=> Agrees(m)
           /\ marker' = marker /\ missed' = missed => (MarkerRight <=> MarkerRight')
<1>1. server' = server /\ log' = log /\ local' = local
  OBVIOUS
<1>2. \A m : Agrees(m)' <=> Agrees(m)
  BY <1>1 DEF Agrees
<1>3. marker' = marker /\ missed' = missed => (MarkerRight <=> MarkerRight')
  BY <1>1, <1>2 DEF MarkerRight, Still
<1> QED BY <1>2, <1>3

\* A sync that begins is alone, or the overlap is noted.
LEMMA RequestRows ==
    ASSUME TypeOK, LockInv, RowsRight, NEW c \in Callers, Request(c) PROVE RowsRight'
<1> SUFFICES ASSUME ~overlap' PROVE RowsRight'
  BY DEF RowsRight
<1>1. /\ call[c] = "idle" /\ sync' = [sync EXCEPT ![c].pc = "read"]
      /\ overlap' = (overlap \/ \E d \in Syncing : Senders \cap {c, d} # {})
      /\ c \in Senders \/ lock = Nobody
      /\ UNCHANGED <<local, marker, missed>>
  BY DEF Request, BeginSync
<1>2. /\ DOMAIN sync = Callers /\ \A d \in Callers : sync[d] \in SyncType(Len(log))
      /\ server' = server /\ log' = log
  BY SyncTyped, MailboxSame
<1>3. Syncing = {}
  <2> SUFFICES ASSUME NEW d \in Syncing PROVE FALSE
    OBVIOUS
  <2>1. c \notin Senders /\ d \notin Senders
    BY <1>1
  <2>2. lock = Nobody /\ d \in Lockers
    BY <1>1, <2>1 DEF Syncing, Callers
  <2>3. call[d] = "sync"
    BY DEF LockInv, Syncing
  <2> QED BY <2>2, <2>3, MailSyncAssumption DEF LockInv, LockedAlone, Callers
<1>4. sync'[c].pc = "read" /\ \A d \in Callers \ {c} : sync'[d] = sync[d] /\ sync[d].pc = "none"
  BY <1>1, <1>2, <1>3 DEF SyncType, Syncing
<1>5. SyncsAlone'
  BY <1>4 DEF SyncsAlone, Syncing
<1>6. MarkerRight'
  <2>1. ~overlap
    BY <1>1
  <2> QED BY <1>1, <1>2, <2>1, SameRows DEF RowsRight
<1>7. \A d \in Callers : DeltaRight(d)' /\ ListRight(d)' /\ FetchRight(d)' /\ RecordRight(d)'
  BY <1>4 DEF DeltaRight, ListRight, FetchRight, RecordRight
<1> QED BY <1>5, <1>6, <1>7 DEF RowsRight

\* A sync that ends, one that fails, and one that reads the marker.
LEMMA QuietRows ==
    ASSUME TypeOK, RowsRecorded, RowsRight, NEW c \in Callers,
           \/ SyncReturns(c) \/ SyncTimesOut(c) \/ StartHangs(c) \/ SyncFails(c) \/ DeltaFails(c) \/ CaptureFails(c)
           \/ ReadMarker(c) \/ ClearMarker(c)
    PROVE  RowsRight'
<1> SUFFICES ASSUME ~overlap' PROVE RowsRight'
  BY DEF RowsRight
<1>1. /\ DOMAIN sync = Callers /\ \A d \in Callers : sync[d] \in SyncType(Len(log))
      /\ server' = server /\ log' = log /\ Len(log) \in Nat
      /\ server \in [Msgs -> {"none", "inbox", "trash", "gone"}]
      /\ local \in [Msgs -> {"none", "inbox", "trash", "deleted"}]
  BY SyncTyped, LogTyped, MailboxSame DEF Step, Sync
<1>2. local' = local /\ missed' = missed /\ overlap' = overlap /\ (marker' = marker \/ marker' = NoMarker)
  BY DEF SyncReturns, SyncTimesOut, StartHangs, SyncFails, DeltaFails, CaptureFails, ReadMarker, ClearMarker
<1>3. MarkerRight'
  <2>1. CASE marker' = marker
    BY <2>1, <1>1, <1>2, SameRows DEF RowsRight
  <2>2. CASE marker' = NoMarker
    BY <2>2 DEF MarkerRight
  <2> QED BY <2>1, <2>2, <1>2
<1>4. sync[c].pc # "none" /\ \A d \in Callers \ {c} : sync'[d] = sync[d]
  BY <1>1 DEF SyncReturns, SyncTimesOut, StartHangs, SyncFails, DeltaFails, CaptureFails, ReadMarker, ClearMarker
<1>5. DeltaRight(c)' /\ ListRight(c)' /\ FetchRight(c)' /\ RecordRight(c)'
  <2>1. CASE SyncReturns(c) \/ SyncTimesOut(c) \/ StartHangs(c) \/ SyncFails(c) \/ DeltaFails(c) \/ CaptureFails(c)
    <3>1. sync'[c].pc \in {"none", "error", "clear", "ok"}
      BY <2>1, <1>1 DEF SyncReturns, SyncTimesOut, StartHangs, SyncFails, DeltaFails, CaptureFails, NoSync, SyncType
    <3> QED BY <3>1 DEF DeltaRight, ListRight, FetchRight, RecordRight
  <2>2. CASE sync'[c] = [NoSync EXCEPT !.pc = "delta", !.at = marker] /\ marker # NoMarker /\ marker' = marker
    <3>1. sync'[c].pc = "delta" /\ sync'[c].at = marker
      BY <2>2 DEF NoSync
    <3> QED BY <3>1, <2>2 DEF DeltaRight, ListRight, FetchRight, RecordRight
  <2>3. CASE sync'[c] = Listing /\ marker' = NoMarker
    <3>1. sync'[c].pc = "list" /\ sync'[c].at = Len(log) /\ sync'[c].todo = Live
      BY <2>3 DEF Listing, NoSync
    <3>2. \A m \in Msgs \ Live : Agrees(m)' \/ server'[m] = "gone"
      BY <1>1, <1>2 DEF Live, Agrees, RowsRecorded
    <3>3. ListRight(c)'
      BY <3>1, <3>2, <2>3, <1>1 DEF ListRight, NoMarker
    <3> QED BY <3>1, <3>3 DEF DeltaRight, FetchRight, RecordRight
  <2>4. CASE ReadMarker(c)
    BY <2>4, <2>2, <2>3, <1>1 DEF ReadMarker
  <2>5. CASE ClearMarker(c)
    BY <2>5, <2>3, <1>1 DEF ClearMarker
  <2> QED BY <2>1, <2>4, <2>5
<1> QED BY <1>2, <1>3, <1>4, <1>5, OneSync

\* The answer of the history.
LEMMA AnswerRows ==
    ASSUME TypeOK, LogTells, RowsRecorded, RowsRight, NEW c \in Callers, FetchDelta(c) PROVE RowsRight'
<1> SUFFICES ASSUME ~overlap' PROVE RowsRight'
  BY DEF RowsRight
<1>1. /\ UNCHANGED server /\ UNCHANGED log /\ UNCHANGED local /\ UNCHANGED marker
      /\ UNCHANGED missed /\ UNCHANGED overlap /\ sync[c].pc = "delta"
  BY DEF FetchDelta, mailbox
<1> DEFINE from == sync[c].at
<1>2. from = marker /\ marker # NoMarker /\ MarkerRight
  BY <1>1 DEF RowsRight, DeltaRight
<1>3. \A d \in Callers \ {c} : sync'[d] = sync[d]
  BY DeltaAnswers
<1>4. MarkerRight'
  BY <1>1, <1>2, SameRows
<1>5. DeltaRight(c)' /\ ListRight(c)' /\ FetchRight(c)' /\ RecordRight(c)'
  <2>1. CASE sync'[c] = [NoSync EXCEPT !.pc = "ok", !.forgotten = TRUE]
    <3>1. sync'[c].pc = "ok"
      BY <2>1 DEF NoSync
    <3> QED BY <3>1 DEF DeltaRight, ListRight, FetchRight, RecordRight
  <2>2. CASE sync'[c] # [NoSync EXCEPT !.pc = "ok", !.forgotten = TRUE]
    <3> DEFINE s == sync'[c]
    <3>1. /\ from \in 0..Len(log)
          /\ s.pc = "fetch" /\ s.at = Len(log)
          /\ \A m : /\ m \in s.todo <=> Shown("add", m, from) \/ Shown("trash", m, from) \/ Shown("restore", m, from)
                    /\ m \in s.trashed <=> Shown("trash", m, from)
                    /\ m \in s.restored <=> Shown("restore", m, from)
                    /\ m \in s.deleted <=> Shown("delete", m, from)
          /\ Touched(from + HistoryPage, Len(log)) \subseteq s.passed
          /\ \A m : Shown("restore", m, from) /\ Shown("trash", m, from) /\ server[m] = "inbox" => m \in s.passed
          /\ \A m : Shown("restore", m, from) /\ ~Shown("trash", m, from) /\ Shown("delete", m, from) => m \in s.passed
      BY <2>2, DeltaAnswers
    <3> HIDE DEF s, from
    <3>2. \A m \in s.trashed \cup s.restored \cup s.deleted : ~Still(m, from)
      BY <3>1, ShownMoved
    <3>3. ASSUME NEW m \in Msgs \ s.passed PROVE FetchedRight(s, m)
      <4>1. m \notin Touched(from + HistoryPage, Len(log))
        BY <3>1
      <4>2. /\ Shown("trash", m, from) => server[m] \in {"trash", "gone"} \/ (server[m] = "inbox" /\ Shown("restore", m, from))
            /\ Shown("restore", m, from) /\ ~Shown("trash", m, from) =>
                  server[m] = "inbox" \/ (server[m] = "gone" /\ Shown("delete", m, from))
            /\ Shown("delete", m, from) => server[m] = "gone"
            /\ Shown("add", m, from) /\ ~Shown("trash", m, from) /\ ~Shown("restore", m, from) /\ ~Shown("delete", m, from)
                  => server[m] = "inbox" /\ local[m] \in {"none", "inbox"}
            /\ \/ Shown("add", m, from) \/ Shown("trash", m, from) \/ Shown("restore", m, from) \/ Shown("delete", m, from)
               \/ Still(m, from)
        BY <3>1, <4>1, AnswerTells
      <4>3. m \in s.trashed => server[m] \in {"trash", "gone"} /\ m \in s.todo
        BY <3>1, <3>3, <4>2
      <4>4. m \in s.restored \ s.trashed => server[m] = "inbox" /\ m \in s.todo
        BY <3>1, <3>3, <4>2
      <4>5. m \in s.deleted => server[m] = "gone"
        BY <3>1, <4>2
      <4>6. m \notin s.trashed \cup s.restored \cup s.deleted =>
               \/ m \in missed \/ Agrees(m)
               \/ m \in s.todo /\ server[m] = "inbox" /\ local[m] \in {"none", "inbox"}
        <5> SUFFICES ASSUME m \notin s.trashed \cup s.restored \cup s.deleted, m \notin missed, ~Agrees(m)
                     PROVE  m \in s.todo /\ server[m] = "inbox" /\ local[m] \in {"none", "inbox"}
          OBVIOUS
        <5>1. ~Shown("trash", m, from) /\ ~Shown("restore", m, from) /\ ~Shown("delete", m, from)
          BY <3>1
        <5>2. ~Still(m, from)
          BY <1>2 DEF MarkerRight, from
        <5> QED BY <3>1, <4>2, <5>1, <5>2
      <4> QED BY <4>3, <4>4, <4>5, <4>6 DEF FetchedRight
    <3>4. FetchRight(c)'
      <4>1. \A m \in Msgs \ s.passed : FetchedRight(sync[c], m)' <=> FetchedRight(s, m)
        BY <1>1 DEF FetchedRight, Agrees, s
      <4>2. \A m : Still(m, marker)' <=> Still(m, from)
        BY <1>1, <1>2 DEF Still, from
      <4>3. s.at # NoMarker
        BY <3>1, LogTyped DEF NoMarker
      <4> QED BY <3>1, <3>2, <3>3, <4>1, <4>2, <4>3, <1>1, <1>2 DEF FetchRight, s
    <3> QED BY <3>1, <3>4 DEF DeltaRight, ListRight, RecordRight, s
  <2> QED BY <2>1, <2>2
<1> QED BY <1>1, <1>3, <1>4, <1>5, OneSync

\* A message fetched: its row is right, whatever was said of it.
LEMMA FetchRows ==
    ASSUME TypeOK, RowsRecorded, RowsRight, NEW c \in Callers, FetchMessage(c) PROVE RowsRight'
<1> SUFFICES ASSUME ~overlap' PROVE RowsRight'
  BY DEF RowsRight
<1>1. PICK m \in sync[c].todo : Upsert(m) /\ sync' = [sync EXCEPT ![c].todo = @ \ {m}]
  BY DEF FetchMessage
<1>2. /\ UNCHANGED server /\ UNCHANGED log /\ UNCHANGED marker /\ UNCHANGED overlap
      /\ sync[c].pc \in {"fetch", "list"}
  BY DEF FetchMessage, mailbox
<1>3. /\ DOMAIN sync = Callers /\ \A d \in Callers : sync[d] \in SyncType(Len(log))
      /\ server \in [Msgs -> {"none", "inbox", "trash", "gone"}]
      /\ local \in [Msgs -> {"none", "inbox", "trash", "deleted"}] /\ missed \subseteq Msgs
  BY SyncTyped
<1>4. /\ sync'[c].pc = sync[c].pc /\ sync'[c].at = sync[c].at /\ sync'[c].todo = sync[c].todo \ {m}
      /\ sync'[c].trashed = sync[c].trashed /\ sync'[c].restored = sync[c].restored
      /\ sync'[c].deleted = sync[c].deleted /\ sync'[c].passed = sync[c].passed
      /\ \A d \in Callers \ {c} : sync'[d] = sync[d]
      /\ m \in Msgs
  BY <1>1, <1>3 DEF SyncType
<1>5. \A x \in Msgs : x # m => local'[x] = local[x] /\ (x \in missed' <=> x \in missed)
  BY <1>1, <1>3 DEF Upsert
<1>6. m \in Live => local'[m] = server[m] /\ m \notin missed' /\ server[m] \in {"inbox", "trash"}
  BY <1>1, <1>3, <1>4 DEF Upsert, Live
<1>7. m \notin Live => local'[m] = local[m] /\ (m \in missed' <=> m \in missed) /\ server[m] \in {"none", "gone"}
  BY <1>1, <1>3, <1>4 DEF Upsert, Live
<1>8. \A x \in Msgs : (x # m \/ m \notin Live) => (Agrees(x)' <=> Agrees(x))
  BY <1>2, <1>5, <1>7 DEF Agrees
<1>9. m \in Live => Agrees(m)'
  BY <1>2, <1>6 DEF Agrees
<1>10. \A x, n : Still(x, n)' <=> Still(x, n)
  BY <1>2 DEF Still
<1>11. MarkerRight'
  <2> SUFFICES ASSUME marker # NoMarker, NEW x \in Msgs, x \notin missed', Still(x, marker) PROVE Agrees(x)'
    BY <1>2, <1>10 DEF MarkerRight
  <2>1. CASE x = m /\ m \in Live
    BY <2>1, <1>9
  <2>2. CASE x # m \/ m \notin Live
    <3>1. x \notin missed
      BY <2>2, <1>5, <1>7
    <3> QED BY <3>1, <2>2, <1>8, <1>2 DEF RowsRight, MarkerRight
  <2> QED BY <2>1, <2>2
<1>12. ListRight(c)'
  <2> SUFFICES ASSUME sync[c].pc = "list"
               PROVE  /\ marker = NoMarker /\ sync[c].at # NoMarker
                      /\ \A x \in Msgs \ ((sync[c].todo \ {m}) \cup sync[c].passed) :
                            Still(x, sync[c].at) => Agrees(x)' \/ server[x] = "gone"
    BY <1>2, <1>4, <1>10 DEF ListRight
  <2>1. ListRight(c)
    BY <1>2 DEF RowsRight
  <2>2. ASSUME NEW x \in Msgs \ ((sync[c].todo \ {m}) \cup sync[c].passed), Still(x, sync[c].at)
        PROVE  Agrees(x)' \/ server[x] = "gone"
    <3>1. CASE x = m /\ m \in Live
      BY <3>1, <1>9
    <3>2. CASE x = m /\ m \notin Live
      <4>1. server[m] = "none" => local'[m] = "none"
        BY <3>2, <1>4, <1>7, <1>3 DEF RowsRecorded
      <4>2. server[m] = "none" => Agrees(m)'
        BY <4>1, <1>2 DEF Agrees
      <4> QED BY <3>2, <4>2, <1>7
    <3>3. CASE x # m
      <4>1. Agrees(x) \/ server[x] = "gone"
        BY <2>1, <2>2, <3>3 DEF ListRight
      <4> QED BY <4>1, <3>3, <1>8, <2>2
    <3> QED BY <3>1, <3>2, <3>3
  <2> QED BY <2>1, <2>2 DEF ListRight
<1>13. FetchRight(c)'
  <2> SUFFICES ASSUME sync[c].pc = "fetch" PROVE FetchRight(c)'
    BY <1>4 DEF FetchRight
  <2>1. /\ marker # NoMarker /\ sync[c].at # NoMarker
        /\ \A x \in sync[c].trashed \cup sync[c].restored \cup sync[c].deleted : ~Still(x, marker)
        /\ \A x \in Msgs \ sync[c].passed : Still(x, sync[c].at) => FetchedRight(sync[c], x)
    BY <1>2 DEF RowsRight, FetchRight
  <2>2. ASSUME NEW x \in Msgs \ sync[c].passed, FetchedRight(sync[c], x) PROVE FetchedRight(sync[c], x)'
    <3> DEFINE s == sync[c]
               r == sync'[c]
    <3>0. /\ r.trashed = s.trashed /\ r.restored = s.restored /\ r.deleted = s.deleted /\ r.todo = s.todo \ {m}
          /\ server' = server
      BY <1>2, <1>4
    <3>a. FetchedRight(s, x)
      BY <2>2
    <3>b. SUFFICES
            /\ x \in r.trashed =>
                  /\ server'[x] \in {"trash", "gone"}
                  /\ x \in r.todo \/ local'[x] # "none" \/ server'[x] = "gone"
            /\ x \in r.restored \ r.trashed =>
                  server'[x] = "inbox" /\ (x \in r.todo \/ local'[x] # "none")
            /\ x \in r.deleted \ (r.trashed \cup r.restored) => server'[x] = "gone"
            /\ x \notin r.trashed \cup r.restored \cup r.deleted =>
                  \/ x \in missed' \/ Agrees(x)'
                  \/ x \in r.todo /\ server'[x] = "inbox" /\ local'[x] \in {"none", "inbox"}
      BY DEF FetchedRight
    <3> HIDE DEF s, r
    <3>1. CASE x # m
      BY <3>0, <3>a, <3>1, <1>5, <1>8 DEF FetchedRight
    <3>2. CASE x = m /\ m \in Live
      BY <3>0, <3>a, <3>2, <1>6, <1>9 DEF FetchedRight
    <3>3. CASE x = m /\ m \notin Live
      <4>1. server[x] # "trash" /\ server[x] # "inbox" /\ (Agrees(x)' <=> Agrees(x)) /\ (x \in missed' <=> x \in missed)
        BY <3>3, <1>7, <1>8
      <4> QED BY <3>0, <3>a, <4>1 DEF FetchedRight
    <3> QED BY <3>1, <3>2, <3>3
  <2> QED BY <2>1, <2>2, <1>2, <1>4, <1>10 DEF FetchRight
<1>14. DeltaRight(c)' /\ RecordRight(c)'
  BY <1>2, <1>4 DEF DeltaRight, RecordRight
<1>15. sync[c].pc # "none" /\ ~overlap
  BY <1>2
<1> QED BY <1>4, <1>11, <1>12, <1>13, <1>14, <1>15, OneSync

\* A message skipped is passed over, unless the label changes reach its row.
LEMMA SkipRows ==
    ASSUME TypeOK, RowsRight, NEW c \in Callers, MessageFails(c) PROVE RowsRight'
<1> SUFFICES ASSUME ~overlap' PROVE RowsRight'
  BY DEF RowsRight
<1>1. PICK m \in sync[c].todo :
        sync' = [sync EXCEPT ![c].todo = @ \ {m},
                             ![c].passed = IF sync[c].pc = "list" \/ local[m] = "none" THEN @ \cup {m} ELSE @]
  BY DEF MessageFails
<1>2. /\ UNCHANGED server /\ UNCHANGED log /\ UNCHANGED marker /\ UNCHANGED overlap
      /\ UNCHANGED local /\ UNCHANGED missed /\ sync[c].pc \in {"fetch", "list"}
  BY DEF MessageFails, mailbox
<1>3. /\ DOMAIN sync = Callers /\ \A d \in Callers : sync[d] \in SyncType(Len(log))
  BY SyncTyped
<1>4. /\ sync'[c].pc = sync[c].pc /\ sync'[c].at = sync[c].at /\ sync'[c].todo = sync[c].todo \ {m}
      /\ sync'[c].trashed = sync[c].trashed /\ sync'[c].restored = sync[c].restored
      /\ sync'[c].deleted = sync[c].deleted /\ sync[c].passed \subseteq sync'[c].passed
      /\ sync[c].pc = "list" \/ local[m] = "none" => m \in sync'[c].passed
      /\ \A d \in Callers \ {c} : sync'[d] = sync[d]
  BY <1>1, <1>3 DEF SyncType
<1>5. \A x : Agrees(x)' <=> Agrees(x)
  BY <1>2, SameRows
<1>6. \A x, n : Still(x, n)' <=> Still(x, n)
  BY <1>2 DEF Still
<1>7. MarkerRight'
  BY <1>2, SameRows DEF RowsRight
<1>8. ListRight(c)'
  <2> SUFFICES ASSUME sync[c].pc = "list" PROVE ListRight(c)'
    BY <1>4 DEF ListRight
  <2>1. /\ marker = NoMarker /\ sync[c].at # NoMarker
        /\ \A x \in Msgs \ (sync[c].todo \cup sync[c].passed) : Still(x, sync[c].at) => Agrees(x) \/ server[x] = "gone"
    BY <1>2 DEF RowsRight, ListRight
  <2>2. \A x \in Msgs \ (sync'[c].todo \cup sync'[c].passed) : x \in Msgs \ (sync[c].todo \cup sync[c].passed)
    BY <1>4
  <2> QED BY <2>1, <2>2, <1>2, <1>4, <1>5, <1>6 DEF ListRight
<1>9. FetchRight(c)'
  <2> SUFFICES ASSUME sync[c].pc = "fetch" PROVE FetchRight(c)'
    BY <1>4 DEF FetchRight
  <2>1. /\ marker # NoMarker /\ sync[c].at # NoMarker
        /\ \A x \in sync[c].trashed \cup sync[c].restored \cup sync[c].deleted : ~Still(x, marker)
        /\ \A x \in Msgs \ sync[c].passed : Still(x, sync[c].at) => FetchedRight(sync[c], x)
    BY <1>2 DEF RowsRight, FetchRight
  <2>2. ASSUME NEW x \in Msgs \ sync'[c].passed, FetchedRight(sync[c], x) PROVE FetchedRight(sync[c], x)'
    <3>1. x = m => local[x] # "none"
      BY <1>4, <2>2
    <3>2. x # m => (x \in sync'[c].todo <=> x \in sync[c].todo)
      BY <1>4
    <3>3. server[x] = "inbox" /\ local[x] = "inbox" => Agrees(x)
      BY DEF Agrees
    <3>4. CASE x = m
      BY <2>2, <3>1, <3>3, <3>4, <1>2, <1>4, <1>5 DEF FetchedRight
    <3>5. CASE x # m
      BY <2>2, <3>2, <3>5, <1>2, <1>4, <1>5 DEF FetchedRight
    <3> QED BY <3>4, <3>5
  <2>3. \A x \in Msgs \ sync'[c].passed : x \in Msgs \ sync[c].passed
    BY <1>4
  <2> QED BY <2>1, <2>2, <2>3, <1>2, <1>4, <1>6 DEF FetchRight
<1>10. DeltaRight(c)' /\ RecordRight(c)'
  BY <1>2, <1>4 DEF DeltaRight, RecordRight
<1>11. sync[c].pc # "none" /\ ~overlap
  BY <1>2
<1> QED BY <1>4, <1>7, <1>8, <1>9, <1>10, <1>11, OneSync

\* The changes applied: what a delta does not pass over is right.
LEMMA ApplyRows ==
    ASSUME TypeOK, RowsRecorded, RowsRight, NEW c \in Callers, ApplyChanges(c) PROVE RowsRight'
<1> SUFFICES ASSUME ~overlap' PROVE RowsRight'
  BY DEF RowsRight
<1>1. /\ UNCHANGED server /\ UNCHANGED log /\ UNCHANGED marker /\ UNCHANGED overlap
      /\ UNCHANGED missed /\ sync[c].pc = "fetch" /\ sync[c].todo = {}
      /\ sync' = [sync EXCEPT ![c].pc = "record"]
  BY DEF ApplyChanges, mailbox
<1>2. /\ DOMAIN sync = Callers /\ \A d \in Callers : sync[d] \in SyncType(Len(log))
  BY SyncTyped
<1>3. /\ sync'[c].pc = "record" /\ sync'[c].at = sync[c].at /\ sync'[c].passed = sync[c].passed
      /\ \A d \in Callers \ {c} : sync'[d] = sync[d]
  BY <1>1, <1>2 DEF SyncType
<1>4. \A x, n : Still(x, n)' <=> Still(x, n)
  BY <1>1 DEF Still
<1>5. /\ marker # NoMarker /\ sync[c].at # NoMarker
      /\ \A x \in sync[c].trashed \cup sync[c].restored \cup sync[c].deleted : ~Still(x, marker)
      /\ \A x \in Msgs \ sync[c].passed : Still(x, sync[c].at) => FetchedRight(sync[c], x)
      /\ MarkerRight
  BY <1>1 DEF RowsRight, FetchRight
<1>6. MarkerRight'
  <2> SUFFICES ASSUME NEW x \in Msgs \ missed, Still(x, marker) PROVE Agrees(x)'
    BY <1>1, <1>4 DEF MarkerRight
  <2>1. Agrees(x)
    BY <1>5 DEF MarkerRight
  <2>2. local'[x] = local[x]
    BY <1>5, Applied
  <2> QED BY <2>1, <2>2, <1>1 DEF Agrees
<1>7. RecordRight(c)'
  <2> SUFFICES ASSUME NEW x \in Msgs \ (missed \cup sync[c].passed), Still(x, sync[c].at) PROVE Agrees(x)'
    BY <1>1, <1>3, <1>4, <1>5 DEF RecordRight
  <2> DEFINE s == sync[c]
  <2>1. FetchedRight(s, x) /\ x \notin s.todo
    BY <1>1, <1>5
  <2>2. /\ local[x] = "none" => local'[x] = "none"
        /\ local[x] # "none" /\ x \in s.trashed => local'[x] = "trash"
        /\ local[x] # "none" /\ x \in s.restored \ s.trashed => local'[x] = "inbox"
        /\ local[x] # "none" /\ x \in s.deleted \ (s.trashed \cup s.restored) => local'[x] = "deleted"
        /\ x \notin s.trashed \cup s.restored \cup s.deleted => local'[x] = local[x]
    BY Applied
  <2> HIDE DEF s
  <2>3. server' = server
    BY <1>1
  <2>4. CASE x \in s.trashed
    BY <2>1, <2>2, <2>3, <2>4 DEF FetchedRight, Agrees
  <2>5. CASE x \in s.restored \ s.trashed
    BY <2>1, <2>2, <2>3, <2>5 DEF FetchedRight, Agrees
  <2>6. CASE x \in s.deleted \ (s.trashed \cup s.restored)
    BY <2>1, <2>2, <2>3, <2>6 DEF FetchedRight, Agrees
  <2>7. CASE x \notin s.trashed \cup s.restored \cup s.deleted
    <3>1. Agrees(x)
      BY <2>1, <2>7 DEF FetchedRight
    <3> QED BY <3>1, <2>2, <2>3, <2>7 DEF Agrees
  <2> QED BY <2>4, <2>5, <2>6, <2>7
<1>8. DeltaRight(c)' /\ ListRight(c)' /\ FetchRight(c)'
  BY <1>3 DEF DeltaRight, ListRight, FetchRight
<1> QED BY <1>1, <1>3, <1>6, <1>7, <1>8, OneSync

\* The end of a listing passes over what changed since, and the deleted.
LEMMA CaptureRows ==
    ASSUME TypeOK, RowsRight, NEW c \in Callers, Capture(c) PROVE RowsRight'
<1> SUFFICES ASSUME ~overlap' PROVE RowsRight'
  BY DEF RowsRight
<1>1. /\ UNCHANGED server /\ UNCHANGED log /\ UNCHANGED marker /\ UNCHANGED overlap
      /\ UNCHANGED local /\ UNCHANGED missed /\ sync[c].pc = "list" /\ sync[c].todo = {}
      /\ sync' = [sync EXCEPT ![c].pc = "record", ![c].at = Len(log),
                     ![c].passed = @ \cup Touched(sync[c].at, Len(log))
                                     \cup {m \in Msgs : server[m] = "gone" /\ local[m] = "inbox"}]
  BY DEF Capture, mailbox
<1>2. /\ DOMAIN sync = Callers /\ \A d \in Callers : sync[d] \in SyncType(Len(log))
  BY SyncTyped
<1>3. /\ sync'[c].pc = "record" /\ sync'[c].at = Len(log)
      /\ sync'[c].passed = sync[c].passed \cup Touched(sync[c].at, Len(log))
                            \cup {m \in Msgs : server[m] = "gone" /\ local[m] = "inbox"}
      /\ \A d \in Callers \ {c} : sync'[d] = sync[d]
  BY <1>1, <1>2 DEF SyncType
<1>4. MarkerRight'
  BY <1>1, SameRows DEF RowsRight
<1>5. RecordRight(c)'
  <2> SUFFICES ASSUME NEW x \in Msgs \ (missed \cup sync'[c].passed) PROVE Agrees(x)
    <3>1. Len(log) # NoMarker
      BY LogTyped DEF NoMarker
    <3> QED BY <3>1, <1>1, <1>3, SameRows DEF RecordRight
  <2>1. Still(x, sync[c].at)
    BY <1>3 DEF Still, Touched
  <2>2. Agrees(x) \/ server[x] = "gone"
    BY <2>1, <1>1, <1>3 DEF RowsRight, ListRight
  <2>3. ~(server[x] = "gone" /\ local[x] = "inbox")
    BY <1>3
  <2> QED BY <2>2, <2>3 DEF Agrees
<1>6. DeltaRight(c)' /\ ListRight(c)' /\ FetchRight(c)'
  BY <1>3 DEF DeltaRight, ListRight, FetchRight
<1> QED BY <1>1, <1>3, <1>4, <1>5, <1>6, OneSync

\* The marker recorded, with the messages passed over.
LEMMA RecordRows ==
    ASSUME TypeOK, RowsRight, NEW c \in Callers, RecordMarker(c) PROVE RowsRight'
<1> SUFFICES ASSUME ~overlap' PROVE RowsRight'
  BY DEF RowsRight
<1>1. /\ UNCHANGED server /\ UNCHANGED log /\ UNCHANGED local /\ UNCHANGED overlap /\ sync[c].pc = "record"
      /\ marker' = sync[c].at /\ missed' = missed \cup sync[c].passed
      /\ sync' = [sync EXCEPT ![c].pc = "ok"]
  BY DEF RecordMarker, mailbox
<1>2. /\ DOMAIN sync = Callers /\ \A d \in Callers : sync[d] \in SyncType(Len(log))
  BY SyncTyped
<1>3. sync'[c].pc = "ok" /\ \A d \in Callers \ {c} : sync'[d] = sync[d]
  BY <1>1, <1>2 DEF SyncType
<1>4. RecordRight(c)
  BY <1>1 DEF RowsRight
<1>5. MarkerRight'
  <2> SUFFICES ASSUME NEW x \in Msgs \ (missed \cup sync[c].passed), Still(x, sync[c].at) PROVE Agrees(x)'
    BY <1>1 DEF MarkerRight, Still
  <2>1. Agrees(x)
    BY <1>1, <1>4 DEF RecordRight
  <2> QED BY <2>1, <1>1, SameRows
<1>6. DeltaRight(c)' /\ ListRight(c)' /\ FetchRight(c)' /\ RecordRight(c)'
  BY <1>3 DEF DeltaRight, ListRight, FetchRight, RecordRight
<1> QED BY <1>1, <1>3, <1>5, <1>6, OneSync

LEMMA RowsFrame ==
    ASSUME RowsRight, UNCHANGED <<server, log, local, marker, sync, missed, overlap>> PROVE RowsRight'
<1>1. /\ server' = server /\ log' = log /\ local' = local /\ marker' = marker
      /\ sync' = sync /\ missed' = missed /\ overlap' = overlap
  OBVIOUS
<1>2. (\A m : Agrees(m)' <=> Agrees(m)) /\ (MarkerRight <=> MarkerRight')
  BY <1>1, SameRows
<1>3. SyncsAlone => SyncsAlone'
  BY <1>1 DEF SyncsAlone, Syncing
<1>4. \A m, n : Still(m, n)' <=> Still(m, n)
  BY <1>1 DEF Still
<1>5. \A c \in Callers, m \in Msgs : FetchedRight(sync[c], m)' <=> FetchedRight(sync[c], m)
  BY <1>1, <1>2 DEF FetchedRight
<1>6. \A c \in Callers : /\ DeltaRight(c) => DeltaRight(c)'
                         /\ RecordRight(c) => RecordRight(c)'
                         /\ ListRight(c) => ListRight(c)'
  BY <1>1, <1>2, <1>4 DEF DeltaRight, ListRight, RecordRight
<1>7. \A c \in Callers : FetchRight(c) => FetchRight(c)'
  BY <1>1, <1>4, <1>5 DEF FetchRight
<1> QED BY <1>1, <1>2, <1>3, <1>6, <1>7 DEF RowsRight

LEMMA RowsStep ==
    TypeOK /\ LockInv /\ RowsInv /\ [Next]_vars => RowsInv'
<1> SUFFICES ASSUME TypeOK, LockInv, RowsInv, [Next]_vars PROVE RowsInv'
  OBVIOUS
<1>0. LogTells /\ RowsRecorded /\ SyncRecorded /\ RowsRight
  BY DEF RowsInv
<1>1. LogTells' /\ RowsRecorded' /\ SyncRecorded'
  BY <1>0, LogStep, RecordsStep
<1>2. CASE \E m \in Msgs : Change(m)
  BY <1>0, <1>1, <1>2, ChangeRows DEF RowsInv
<1>3. CASE Forget \/ UNCHANGED vars
  <2>1. UNCHANGED <<server, log, local, marker, sync, missed, overlap>>
    BY <1>3 DEF Forget, vars, mailbox
  <2> QED BY <2>1, <1>0, <1>1, RowsFrame DEF RowsInv
<1>4. ASSUME NEW c \in Callers, Request(c) \/ Step(c) PROVE RowsRight'
  <2>1. CASE Release(c)
    <3>1. UNCHANGED <<server, log, local, marker, sync, missed, overlap>>
      BY <2>1 DEF Release, mailbox
    <3> QED BY <3>1, <1>0, RowsFrame
  <2> QED BY <2>1, <1>0, <1>4, RequestRows, QuietRows, AnswerRows, FetchRows, SkipRows, ApplyRows,
           CaptureRows, RecordRows DEF Step, Sync
<1> QED BY <1>1, <1>2, <1>3, <1>4 DEF Next, RowsInv

LEMMA RowsInit == Init => RowsInv
<1> SUFFICES ASSUME Init PROVE RowsInv
  OBVIOUS
<1>1. Len(log) = 0 /\ \A i \in 1..Len(log) : FALSE
  BY DEF Init
<1>2. LogTells
  BY <1>1 DEF LogTells, Init
<1>3. RowsRecorded /\ SyncRecorded
  BY DEF RowsRecorded, SyncRecorded, Init, NoSync
<1>4. RowsRight
  BY DEF RowsRight, SyncsAlone, Syncing, MarkerRight, DeltaRight, ListRight, FetchRight, RecordRight, Init, NoSync
<1> QED BY <1>2, <1>3, <1>4 DEF RowsInv

\* However deltas, listings, failures, timeouts and changes of the mailbox
\* interleave: with no sync at work and the stored marker the provider's current
\* one, every row agrees with the mailbox, but for the messages whose change a
\* sync passed over and the histories in which a sync without the lock ran
\* beside another (sync_emails_from_provider, api/ingestion.rs).
THEOREM RowsCatchUp == Spec => []CaughtUp
<1>1. TypeInv /\ LockInv /\ RowsInv /\ [Next]_vars => (TypeInv /\ LockInv /\ RowsInv)'
  BY TypeInvInductive, LockStep, RowsStep DEF TypeInv
<1>2. TypeOK /\ RowsInv => CaughtUp
  <2> SUFFICES ASSUME TypeOK, RowsInv, marker = Len(log), ~overlap, NEW m \in Msgs \ missed PROVE Agrees(m)
    BY DEF CaughtUp
  <2>1. marker # NoMarker
    BY LogTyped DEF NoMarker
  <2>2. Still(m, marker)
    BY LogTyped DEF Still
  <2> QED BY <2>1, <2>2 DEF RowsInv, RowsRight, MarkerRight
<1>3. TypeInv => TypeOK
  BY DEF TypeInv
<1> QED BY <1>1, <1>2, <1>3, TypeInvInductive, LockInit, RowsInit, PTL DEF Spec
=============================================================================
