-------------------------- MODULE ApplyStreamProofs -------------------------
(***************************************************************************)
(* What the browser shows of an apply job is what happened, for every      *)
(* number of accounts, channel capacity, lost connections and any moment   *)
(* of a crash.                                                             *)
(***************************************************************************)
EXTENDS ApplyStream, FiniteSetTheorems, SequenceTheorems, TLAPS

-----------------------------------------------------------------------------
(* The operations applied *)

Ops(S) == {op \in S \X (1..MaxOps) : op[2] <= done[op[1]]}

LEMMA OpsFinite ==
    ASSUME NEW S \in SUBSET Accounts PROVE IsFiniteSet(Ops(S))
<1>1. IsFiniteSet(S) /\ IsFiniteSet(1..MaxOps)
  BY FS_Subset, FS_Interval, StreamAssumption
<1>2. IsFiniteSet(S \X (1..MaxOps))
  BY <1>1, FS_Product
<1> QED BY <1>2, FS_Subset DEF Ops

\* A part of the workers applies a part of what all apply.
LEMMA AppliedByType ==
    ASSUME NEW S \in SUBSET Accounts
    PROVE  AppliedBy(S) \in Nat /\ AppliedBy(S) <= Applied
<1>1. Ops(S) \subseteq Ops(Accounts)
  BY DEF Ops
<1>2. IsFiniteSet(Ops(S)) /\ IsFiniteSet(Ops(Accounts))
  BY OpsFinite
<1>3. Cardinality(Ops(S)) \in Nat /\ Cardinality(Ops(S)) <= Cardinality(Ops(Accounts))
  BY <1>1, <1>2, FS_Subset, FS_CardinalityType
<1> QED BY <1>3 DEF AppliedBy, Applied, Ops

\* One worker's count is a part of the whole.
LEMMA DoneIsApplied ==
    ASSUME NEW a \in Accounts, done[a] \in 0..MaxOps PROVE done[a] <= Applied
<1> DEFINE A == {<<a, k>> : k \in 1..done[a]}
<1>0. done[a] \in Int /\ done[a] >= 0
  BY StreamAssumption
<1>1. IsFiniteSet(1..done[a]) /\ Cardinality(1..done[a]) = done[a]
  BY <1>0, FS_Interval
<1>2. ExistsBijection(1..done[a], A)
  <2> DEFINE f == [k \in 1..done[a] |-> <<a, k>>]
  <2>1. f \in Bijection(1..done[a], A)
    BY DEF Bijection, Injection, Surjection, IsInjective
  <2> QED BY <2>1 DEF ExistsBijection
<1>3. Cardinality(A) = done[a]
  <2> HIDE DEF A
  <2> QED BY <1>1, <1>2, FS_Bijection
<1>4. A \subseteq Ops(Accounts)
  BY StreamAssumption DEF Ops
<1>5. Cardinality(A) <= Cardinality(Ops(Accounts))
  <2> HIDE DEF A
  <2> QED BY <1>4, OpsFinite, FS_Subset
<1> QED BY <1>3, <1>5 DEF Applied, AppliedBy, Ops

\* The next operation of a worker is one more.
LEMMA AppliedGrows ==
    ASSUME TypeOK, NEW a \in Accounts, done[a] < MaxOps, done' = [done EXCEPT ![a] = @ + 1]
    PROVE  Applied' = Applied + 1
<1> DEFINE new == <<a, done[a] + 1>>
<1>1. done \in [Accounts -> 0..MaxOps] /\ MaxOps \in Nat
  BY StreamAssumption DEF TypeOK
<1>2. Ops(Accounts)' = Ops(Accounts) \cup {new}
  BY <1>1 DEF Ops
<1>3. new \notin Ops(Accounts)
  BY <1>1 DEF Ops
<1>4. Cardinality(Ops(Accounts) \cup {new}) = Cardinality(Ops(Accounts)) + 1
  <2> HIDE DEF new
  <2> QED BY <1>3, OpsFinite, FS_AddElement
<1> QED BY <1>2, <1>4 DEF Applied, AppliedBy, Ops

-----------------------------------------------------------------------------
(* The inductive invariant *)

\* The row, the outcome and the driver agree.
Outcome ==
    /\ driver = "running" => outcome.state = "running"
    /\ driver \in {"decided", "persisted", "announced", "gone"} => outcome.state # "running"
    /\ outcome.n <= Applied
    /\ row.state # "running" => row = outcome
    /\ row.n <= Applied

\* A finished event tells the outcome.
Tells(ev) ==
    ev.type = "finished" => /\ outcome.state # "running"
                            /\ ev.status = outcome.state /\ ev.n = outcome.n

FinishedTells ==
    /\ \A i \in DOMAIN frames : Tells(frames[i])
    /\ \A i \in DOMAIN inbox : Tells(inbox[i])

\* The stream of a client that is done is closed, and stays so; a request that is
\* not yet answered has no receiver.
Closed ==
    /\ settled => ui \in Terminal /\ handler = "none"
    /\ handler \in {"subscribe", "terminal"} => Len(frames) <= 1
    /\ handler # "open" => inbox = <<>> /\ ~sub

\* What the client would show after each queued event stays within what is
\* applied, whichever events before it are lost: b[i] bounds it after the i-th
\* event, and lo before the first one.
Bounds(s, b) ==
    /\ \A i, k \in 0..Len(s) : i <= k => b[i] <= b[k]
    /\ \A i \in 1..Len(s) : IF s[i].type = "opApplied" THEN b[i - 1] < b[i] ELSE s[i].n <= b[i]

Rising(s, lo, hi) == \E b \in [0..Len(s) -> 0..hi] : lo <= b[0] /\ Bounds(s, b)

Within ==
    \E lo \in 0..Applied :
        /\ shown <= lo
        /\ \A i \in DOMAIN frames : frames[i].type # "opApplied" /\ frames[i].n <= lo
        /\ Rising(inbox, lo, Applied)

StreamInv == TypeOK /\ Outcome /\ FinishedTells /\ Closed /\ SettledShowsOutcome /\ Within

-----------------------------------------------------------------------------
(* Sequences of events *)

LEMMA RisingEmpty == ASSUME NEW n \in Nat PROVE Rising(<<>>, n, n)
<1> DEFINE b == [i \in 0..0 |-> n]
<1>1. b \in [0..Len(<<>>) -> 0..n] /\ n <= b[0] /\ Bounds(<<>>, b)
  BY DEF Bounds
<1> QED BY <1>1 DEF Rising

\* An event at the end, told within the new bound.
LEMMA RisingAppend ==
    ASSUME NEW s \in Seq(Frame), NEW ev \in Frame, NEW lo \in Nat, NEW hi \in Nat, NEW top \in Nat,
           Rising(s, lo, hi), hi <= top,
           IF ev.type = "opApplied" THEN hi < top ELSE ev.n <= top
    PROVE  Rising(Append(s, ev), lo, top)
<1>1. PICK b \in [0..Len(s) -> 0..hi] : lo <= b[0] /\ Bounds(s, b)
  BY DEF Rising
<1> DEFINE c == [i \in 0..(Len(s) + 1) |-> IF i <= Len(s) THEN b[i] ELSE top]
<1>2. Len(s) \in Nat /\ Len(Append(s, ev)) = Len(s) + 1
  BY LenProperties
<1>3. \A i \in 0..Len(s) : b[i] \in 0..hi
  BY <1>1
<1>4. c \in [0..Len(Append(s, ev)) -> 0..top] /\ lo <= c[0]
  BY <1>1, <1>2, <1>3
<1>5. \A i, k \in 0..(Len(s) + 1) : i <= k => c[i] <= c[k]
  <2>1. SUFFICES ASSUME NEW i \in 0..(Len(s) + 1), NEW k \in 0..(Len(s) + 1), i <= k
                 PROVE  c[i] <= c[k]
    OBVIOUS
  <2>2. CASE k <= Len(s)
    BY <1>1, <1>2, <2>1, <2>2 DEF Bounds
  <2>3. CASE k = Len(s) + 1
    BY <1>2, <1>3, <2>1, <2>3
  <2> QED BY <1>2, <2>2, <2>3
<1>6. ASSUME NEW i \in 1..(Len(s) + 1)
      PROVE  IF Append(s, ev)[i].type = "opApplied" THEN c[i - 1] < c[i]
             ELSE Append(s, ev)[i].n <= c[i]
  <2>1. CASE i <= Len(s)
    BY <1>1, <1>2, <2>1 DEF Bounds
  <2>2. CASE i = Len(s) + 1
    <3>1. Append(s, ev)[i] = ev /\ c[i] = top /\ c[i - 1] = b[Len(s)] /\ b[Len(s)] \in 0..hi
      BY <1>2, <1>3, <2>2
    <3> QED BY <3>1
  <2> QED BY <1>2, <2>1, <2>2
<1> HIDE DEF c
<1>7. Bounds(Append(s, ev), c)
  BY <1>2, <1>5, <1>6 DEF Bounds
<1> QED BY <1>4, <1>7 DEF Rising

\* The oldest events are lost.
LEMMA RisingDrop ==
    ASSUME NEW s \in Seq(Frame), NEW lo \in Nat, NEW hi \in Nat, Rising(s, lo, hi),
           NEW n \in 0..Len(s), NEW t \in Seq(Frame), Len(t) = Len(s) - n,
           \A i \in 1..Len(t) : t[i] = s[i + n],
           NEW low \in Nat,
           \A b \in [0..Len(s) -> 0..hi] : lo <= b[0] /\ Bounds(s, b) => low <= b[n]
    PROVE  Rising(t, low, hi)
<1>1. PICK b \in [0..Len(s) -> 0..hi] : lo <= b[0] /\ Bounds(s, b)
  BY DEF Rising
<1> DEFINE c == [i \in 0..Len(t) |-> b[i + n]]
<1>2. Len(s) \in Nat /\ Len(t) \in Nat
  BY LenProperties
<1>3. c \in [0..Len(t) -> 0..hi] /\ low <= c[0]
  BY <1>1, <1>2
<1>4. \A i, k \in 0..Len(t) : i <= k => c[i] <= c[k]
  BY <1>1, <1>2 DEF Bounds
<1>5. ASSUME NEW i \in 1..Len(t)
      PROVE  IF t[i].type = "opApplied" THEN c[i - 1] < c[i] ELSE t[i].n <= c[i]
  <2>1. i + n \in 1..Len(s) /\ t[i] = s[i + n] /\ c[i] = b[i + n] /\ c[i - 1] = b[(i + n) - 1]
    BY <1>2
  <2> QED BY <1>1, <2>1 DEF Bounds
<1> HIDE DEF c
<1>6. Bounds(t, c)
  BY <1>4, <1>5 DEF Bounds
<1> QED BY <1>3, <1>6 DEF Rising

\* A receiver that lags loses some; what is left is bounded as before.
LEMMA RisingLags ==
    ASSUME NEW s \in Seq(Frame), NEW lo \in Nat, NEW hi \in Nat, Rising(s, lo, hi),
           NEW n \in 0..Len(s)
    PROVE  Rising(SubSeq(s, n + 1, Len(s)), lo, hi) /\ SubSeq(s, n + 1, Len(s)) \in Seq(Frame)
<1>1. Len(s) \in Nat
  BY LenProperties
<1> DEFINE t == SubSeq(s, n + 1, Len(s))
<1>2. t \in Seq(Frame) /\ Len(t) = Len(s) - n /\ \A i \in 1..Len(t) : t[i] = s[i + n]
  BY <1>1
<1>3. \A b \in [0..Len(s) -> 0..hi] : lo <= b[0] /\ Bounds(s, b) => lo <= b[n]
  <2>1. SUFFICES ASSUME NEW b \in [0..Len(s) -> 0..hi], lo <= b[0], Bounds(s, b) PROVE lo <= b[n]
    OBVIOUS
  <2>2. b[0] <= b[n] /\ b[0] \in 0..hi /\ b[n] \in 0..hi
    BY <1>1, <2>1 DEF Bounds
  <2> QED BY <2>1, <2>2
<1> HIDE DEF t
<1> QED BY <1>2, <1>3, RisingDrop DEF t

\* The first event is reduced.
LEMMA RisingReceives ==
    ASSUME NEW s \in Seq(Frame), s # <<>>, NEW lo \in Nat, NEW hi \in Nat, Rising(s, lo, hi),
           NEW n \in Nat, n <= lo
    PROVE  LET m == IF s[1].type = "opApplied" THEN n + 1 ELSE s[1].n
           IN  m \in 0..hi /\ Rising(Tail(s), m, hi)
<1> DEFINE m == IF s[1].type = "opApplied" THEN n + 1 ELSE s[1].n
<1>1. Len(s) \in Nat /\ Len(s) >= 1 /\ s[1] \in Frame /\ s[1].n \in Nat
  <2>1. Len(s) \in Nat /\ Len(s) # 0
    BY LenProperties, EmptySeq
  <2>2. s[1] \in Frame
    BY <2>1, ElementOfSeq
  <2> QED BY <2>1, <2>2 DEF Frame
<1>2. Tail(s) \in Seq(Frame) /\ Len(Tail(s)) = Len(s) - 1
      /\ \A i \in 1..Len(Tail(s)) : Tail(s)[i] = s[i + 1]
  BY <1>1, HeadTailProperties
<1>3. ASSUME NEW b \in [0..Len(s) -> 0..hi], lo <= b[0], Bounds(s, b)
      PROVE  m <= b[1] /\ b[1] \in 0..hi
  <2>1. b[0] \in 0..hi /\ b[1] \in 0..hi
    BY <1>1
  <2>2. IF s[1].type = "opApplied" THEN b[1 - 1] < b[1] ELSE s[1].n <= b[1]
    BY <1>1, <1>3 DEF Bounds
  <2> QED BY <1>1, <1>3, <2>1, <2>2
<1>4. m \in Nat /\ 1 \in 0..Len(s)
  BY <1>1
<1>5. m \in 0..hi
  <2>1. PICK b \in [0..Len(s) -> 0..hi] : lo <= b[0] /\ Bounds(s, b)
    BY DEF Rising
  <2> HIDE DEF m
  <2> QED BY <1>3, <1>4, <2>1
<1>6. Rising(Tail(s), m, hi)
  <2> HIDE DEF m
  <2> QED BY <1>2, <1>3, <1>4, RisingDrop
<1> QED BY <1>5, <1>6

\* What follows the first event is shorter, and was there before.
LEMMA TailKeeps ==
    ASSUME NEW s \in Seq(Frame), s # <<>>
    PROVE  /\ Tail(s) \in Seq(Frame) /\ Len(Tail(s)) = Len(s) - 1 /\ Len(s) \in Nat
           /\ \A i \in DOMAIN Tail(s) : \E k \in DOMAIN s : Tail(s)[i] = s[k]
<1>1. Len(s) \in Nat /\ DOMAIN s = 1..Len(s)
  BY LenProperties
<1>2. Tail(s) \in Seq(Frame) /\ Len(Tail(s)) = Len(s) - 1
      /\ \A i \in 1..Len(Tail(s)) : Tail(s)[i] = s[i + 1]
  BY HeadTailProperties
<1>3. DOMAIN Tail(s) = 1..Len(Tail(s))
  BY <1>2, LenProperties
<1>4. \A i \in 1..Len(Tail(s)) : i + 1 \in 1..Len(s)
  BY <1>1, <1>2
<1> QED BY <1>1, <1>2, <1>3, <1>4

-----------------------------------------------------------------------------
(* The channel *)

\* What a send leaves in the receiver is the end of what it would hold without
\* a bound.
LEMMA SendLeaves ==
    ASSUME TypeOK, NEW events \in Seq(Frame), NEW lo \in Nat, NEW top \in Nat,
           Rising(inbox, lo, top), Rising(inbox \o events, lo, top)
    PROVE  /\ AfterSend(events) \in Seq(Frame) /\ Len(AfterSend(events)) <= Capacity
           /\ Rising(AfterSend(events), lo, top)
           /\ \A i \in DOMAIN AfterSend(events) :
                 \/ \E k \in DOMAIN inbox : AfterSend(events)[i] = inbox[k]
                 \/ \E k \in DOMAIN events : AfterSend(events)[i] = events[k]
           /\ ~sub => AfterSend(events) = inbox
<1> DEFINE all == inbox \o events
           n   == Len(all)
           cut == SubSeq(all, n - Capacity + 1, n)
<1>1. inbox \in Seq(Frame) /\ Len(inbox) <= Capacity /\ Capacity \in Nat /\ all \in Seq(Frame)
  BY StreamAssumption DEF TypeOK
<1>2. n = Len(inbox) + Len(events) /\ Len(inbox) \in Nat /\ Len(events) \in Nat /\ n \in Nat
  BY <1>1, LenProperties
<1>3. \A i \in 1..n : \/ \E k \in DOMAIN inbox : all[i] = inbox[k]
                      \/ \E k \in DOMAIN events : all[i] = events[k]
  <2>1. SUFFICES ASSUME NEW i \in 1..n
                 PROVE  \/ \E k \in DOMAIN inbox : all[i] = inbox[k]
                        \/ \E k \in DOMAIN events : all[i] = events[k]
    OBVIOUS
  <2>2. DOMAIN inbox = 1..Len(inbox) /\ DOMAIN events = 1..Len(events)
    BY <1>1, LenProperties
  <2>3. CASE i <= Len(inbox)
    <3>1. i \in DOMAIN inbox /\ all[i] = inbox[i]
      BY <1>1, <1>2, <2>2, <2>3
    <3> QED BY <3>1
  <2>4. CASE i > Len(inbox)
    <3>1. i - Len(inbox) \in DOMAIN events /\ all[i] = events[i - Len(inbox)]
      BY <1>1, <1>2, <2>2, <2>4
    <3> QED BY <3>1
  <2> QED BY <1>2, <2>3, <2>4
<1>4. CASE ~sub
  <2>1. AfterSend(events) = inbox
    BY <1>4 DEF AfterSend
  <2> QED BY <1>1, <2>1
<1>5. CASE sub /\ n <= Capacity
  <2>1. AfterSend(events) = all
    BY <1>5 DEF AfterSend
  <2>2. DOMAIN all = 1..n
    BY <1>1, LenProperties
  <2> HIDE DEF all
  <2> QED BY <1>1, <1>3, <1>5, <2>1, <2>2 DEF all
<1>6. CASE sub /\ n > Capacity
  <2>1. AfterSend(events) = cut
    BY <1>2, <1>6, StreamAssumption DEF AfterSend
  <2>2. n - Capacity \in 0..n
    BY <1>1, <1>2, <1>6
  <2>3. Rising(cut, lo, top) /\ cut \in Seq(Frame)
    <3> HIDE DEF all
    <3> QED BY <1>1, <2>2, RisingLags DEF all
  <2>4. Len(cut) = Capacity /\ \A i \in 1..Capacity : cut[i] = all[i + (n - Capacity)]
    <3> HIDE DEF all
    <3> QED BY <1>1, <1>2, <2>2
  <2>5. DOMAIN cut = 1..Capacity
    BY <2>3, <2>4, LenProperties
  <2>6. \A i \in 1..Capacity : i + (n - Capacity) \in 1..n
    BY <1>1, <1>2, <2>2
  <2> HIDE DEF all, n, cut
  <2>7. \A i \in DOMAIN cut : \/ \E k \in DOMAIN inbox : cut[i] = inbox[k]
                              \/ \E k \in DOMAIN events : cut[i] = events[k]
    <3>1. SUFFICES ASSUME NEW i \in 1..Capacity
                   PROVE  \/ \E k \in DOMAIN inbox : cut[i] = inbox[k]
                          \/ \E k \in DOMAIN events : cut[i] = events[k]
      BY <2>5
    <3>2. cut[i] = all[i + (n - Capacity)] /\ i + (n - Capacity) \in 1..n
      BY <2>4, <2>6
    <3> QED BY <1>3, <3>2
  <2> QED BY <1>1, <1>6, <2>1, <2>3, <2>4, <2>7
<1> QED BY <1>2, <1>4, <1>5, <1>6, StreamAssumption

\* A send of one event.
LEMMA SendOne ==
    ASSUME TypeOK, NEW ev \in Frame, NEW lo \in Nat, NEW hi \in Nat, NEW top \in Nat,
           Rising(inbox, lo, hi), hi <= top,
           IF ev.type = "opApplied" THEN hi < top ELSE ev.n <= top
    PROVE  /\ AfterSend(<<ev>>) \in Seq(Frame) /\ Len(AfterSend(<<ev>>)) <= Capacity
           /\ Rising(AfterSend(<<ev>>), lo, top)
           /\ \A i \in DOMAIN AfterSend(<<ev>>) :
                 (\E k \in DOMAIN inbox : AfterSend(<<ev>>)[i] = inbox[k]) \/ AfterSend(<<ev>>)[i] = ev
           /\ ~sub => AfterSend(<<ev>>) = inbox
<1>1. inbox \in Seq(Frame)
  BY DEF TypeOK
<1>2. inbox \o <<ev>> = Append(inbox, ev) /\ <<ev>> \in Seq(Frame)
  BY <1>1
<1>3. Rising(inbox \o <<ev>>, lo, top)
  BY <1>1, <1>2, RisingAppend
<1>4. Rising(inbox, lo, top)
  <2>1. PICK b \in [0..Len(inbox) -> 0..hi] : lo <= b[0] /\ Bounds(inbox, b)
    BY DEF Rising
  <2>2. b \in [0..Len(inbox) -> 0..top]
    <3>1. \A i \in 0..Len(inbox) : b[i] \in 0..hi
      OBVIOUS
    <3> QED BY <3>1
  <2> QED BY <2>1, <2>2 DEF Rising
<1>5. \A k \in DOMAIN <<ev>> : <<ev>>[k] = ev
  OBVIOUS
<1> QED BY <1>2, <1>3, <1>4, <1>5, SendLeaves

\* The two events that announce the outcome.
LEMMA SendTwo ==
    ASSUME TypeOK, NEW e1 \in Frame, NEW e2 \in Frame, NEW lo \in Nat, NEW top \in Nat,
           Rising(inbox, lo, top), e1.type # "opApplied", e2.type # "opApplied",
           e1.n <= top, e2.n <= top
    PROVE  /\ AfterSend(<<e1, e2>>) \in Seq(Frame) /\ Len(AfterSend(<<e1, e2>>)) <= Capacity
           /\ Rising(AfterSend(<<e1, e2>>), lo, top)
           /\ \A i \in DOMAIN AfterSend(<<e1, e2>>) :
                 \/ \E k \in DOMAIN inbox : AfterSend(<<e1, e2>>)[i] = inbox[k]
                 \/ AfterSend(<<e1, e2>>)[i] \in {e1, e2}
           /\ ~sub => AfterSend(<<e1, e2>>) = inbox
<1>1. inbox \in Seq(Frame)
  BY DEF TypeOK
<1>2. Append(inbox, e1) \in Seq(Frame) /\ <<e1, e2>> \in Seq(Frame)
  BY <1>1
<1>3. inbox \o <<e1, e2>> = Append(Append(inbox, e1), e2)
  <2>1. inbox \o <<e1, e2>> \in Seq(Frame) /\ Append(Append(inbox, e1), e2) \in Seq(Frame)
    BY <1>1, <1>2
  <2>2. Len(inbox) \in Nat /\ Len(inbox \o <<e1, e2>>) = Len(inbox) + 2
        /\ Len(Append(Append(inbox, e1), e2)) = Len(inbox) + 2
    BY <1>1
  <2>3. \A i \in 1..(Len(inbox) + 2) :
            (inbox \o <<e1, e2>>)[i] = Append(Append(inbox, e1), e2)[i]
    BY <1>1
  <2> QED BY <2>1, <2>2, <2>3, SeqEqual
<1>4. Rising(inbox \o <<e1, e2>>, lo, top)
  <2>1. top <= top
    OBVIOUS
  <2>2. Rising(Append(inbox, e1), lo, top)
    BY <1>1, <2>1, RisingAppend
  <2> QED BY <1>2, <1>3, <2>1, <2>2, RisingAppend
<1>5. \A k \in DOMAIN <<e1, e2>> : <<e1, e2>>[k] \in {e1, e2}
  OBVIOUS
<1> QED BY <1>2, <1>4, <1>5, SendLeaves

-----------------------------------------------------------------------------
(* The steps of the job *)

LEMMA FrameType ==
    /\ OpApplied \in Frame
    /\ \A n \in Nat : Snapshot(n) \in Frame /\ Progress(n) \in Frame
    /\ \A o \in [state : {"running", "finished", "failed", "cancelled"}, n : Nat] :
          Finished(o) \in Frame
BY DEF Frame, OpApplied, Snapshot, Progress, Finished

LEMMA AppliedType == Applied \in Nat
BY AppliedByType DEF Applied

\* The client's view after a step that leaves the client and the handler alone.
LEMMA SameWithin ==
    ASSUME TypeOK, Within, Applied' = Applied, UNCHANGED <<shown, frames, inbox>>
    PROVE  Within'
BY DEF Within, Rising, Bounds

LEMMA ApplyRowStep ==
    ASSUME StreamInv, NEW a \in Accounts, ApplyRow(a) PROVE StreamInv'
<1>0. TypeOK /\ Applied \in Nat
  BY AppliedType DEF StreamInv
<1>1. Applied' = Applied + 1
  BY <1>0, AppliedGrows DEF ApplyRow
<1>2. PICK lo \in 0..Applied :
        /\ shown <= lo
        /\ \A i \in DOMAIN frames : frames[i].type # "opApplied" /\ frames[i].n <= lo
        /\ Rising(inbox, lo, Applied)
  BY DEF StreamInv, Within
<1>3. /\ inbox' \in Seq(Frame) /\ Len(inbox') <= Capacity /\ Rising(inbox', lo, Applied + 1)
      /\ \A i \in DOMAIN inbox' : (\E k \in DOMAIN inbox : inbox'[i] = inbox[k]) \/ inbox'[i] = OpApplied
      /\ ~sub => inbox' = inbox
  <2>1. inbox' = AfterSend(<<OpApplied>>) /\ OpApplied.type = "opApplied" /\ OpApplied \in Frame
    BY FrameType DEF ApplyRow, OpApplied
  <2> QED BY <1>0, <1>2, <2>1, SendOne
<1>4. TypeOK'
  BY <1>0, <1>3, StreamAssumption DEF ApplyRow, TypeOK, clientVars
<1>5. Within'
  <2>1. Rising(inbox, lo, Applied)' <=> Rising(inbox', lo, Applied')
    BY DEF Rising, Bounds
  <2>2. lo \in 0..Applied' /\ UNCHANGED <<shown, frames>>
    BY <1>0, <1>1 DEF ApplyRow, clientVars
  <2> QED BY <1>1, <1>2, <1>3, <2>2 DEF Within, Rising, Bounds
<1>6. FinishedTells'
  BY <1>3 DEF ApplyRow, StreamInv, FinishedTells, Tells, OpApplied
<1>7. Outcome'
  <2>1. row.n \in Nat /\ outcome.n \in Nat
    BY <1>0 DEF TypeOK
  <2>2. row.n <= Applied' /\ outcome.n <= Applied'
    BY <1>0, <1>1, <2>1 DEF StreamInv, Outcome
  <2> QED BY <2>2 DEF ApplyRow, StreamInv, Outcome
<1>8. Closed' /\ SettledShowsOutcome'
  BY <1>3 DEF ApplyRow, StreamInv, Closed, SettledShowsOutcome, clientVars
<1> QED BY <1>4, <1>5, <1>6, <1>7, <1>8 DEF StreamInv

LEMMA EmitProgressStep ==
    ASSUME StreamInv, NEW a \in Accounts, EmitProgress(a) PROVE StreamInv'
<1>0. TypeOK /\ Applied \in Nat /\ done[a] \in 0..MaxOps /\ done[a] <= Applied /\ done[a] \in Nat
  <2>1. TypeOK /\ done[a] \in 0..MaxOps
    BY DEF StreamInv, TypeOK
  <2> QED BY <2>1, AppliedType, DoneIsApplied
<1>1. Applied' = Applied
  BY DEF EmitProgress, Applied, AppliedBy
<1>2. PICK lo \in 0..Applied :
        /\ shown <= lo
        /\ \A i \in DOMAIN frames : frames[i].type # "opApplied" /\ frames[i].n <= lo
        /\ Rising(inbox, lo, Applied)
  BY DEF StreamInv, Within
<1>3. /\ inbox' \in Seq(Frame) /\ Len(inbox') <= Capacity /\ Rising(inbox', lo, Applied)
      /\ \A i \in DOMAIN inbox' :
            (\E k \in DOMAIN inbox : inbox'[i] = inbox[k]) \/ inbox'[i] = Progress(done[a])
      /\ ~sub => inbox' = inbox
  <2>1. CASE inbox' = inbox
    <3>1. inbox \in Seq(Frame) /\ Len(inbox) <= Capacity
      BY <1>0 DEF TypeOK
    <3> QED BY <1>2, <2>1, <3>1
  <2>2. CASE inbox' = AfterSend(<<Progress(done[a])>>)
    <3>1. Progress(done[a]) \in Frame /\ Progress(done[a]).type = "progress"
          /\ Progress(done[a]).n = done[a]
      BY <1>0, FrameType DEF Progress
    <3>2. Applied <= Applied /\ lo \in Nat
      BY <1>0
    <3> QED BY <1>0, <1>2, <2>2, <3>1, <3>2, SendOne
  <2> QED BY <2>1, <2>2 DEF EmitProgress
<1>4. TypeOK'
  BY <1>0, <1>3, StreamAssumption DEF EmitProgress, TypeOK, clientVars
<1>5. Within'
  BY <1>1, <1>2, <1>3 DEF Within, Rising, Bounds, EmitProgress, clientVars
<1>6. FinishedTells'
  BY <1>3 DEF EmitProgress, StreamInv, FinishedTells, Tells, Progress
<1>7. Outcome' /\ Closed' /\ SettledShowsOutcome'
  BY <1>1, <1>3 DEF EmitProgress, StreamInv, Outcome, Closed, SettledShowsOutcome, clientVars
<1> QED BY <1>4, <1>5, <1>6, <1>7 DEF StreamInv

LEMMA AnnounceStep ==
    ASSUME StreamInv, Announce PROVE StreamInv'
<1>0. TypeOK /\ Applied \in Nat /\ outcome.n \in Nat /\ outcome.n <= Applied
      /\ outcome \in [state : {"running", "finished", "failed", "cancelled"}, n : Nat]
  <2>1. TypeOK /\ outcome.n <= Applied
        /\ outcome \in [state : {"running", "finished", "failed", "cancelled"}, n : Nat]
    BY DEF StreamInv, TypeOK, Outcome
  <2> QED BY <2>1, AppliedType
<1>1. Applied' = Applied
  BY DEF Announce, Applied, AppliedBy
<1>2. PICK lo \in 0..Applied :
        /\ shown <= lo
        /\ \A i \in DOMAIN frames : frames[i].type # "opApplied" /\ frames[i].n <= lo
        /\ Rising(inbox, lo, Applied)
  BY DEF StreamInv, Within
<1>3. /\ inbox' \in Seq(Frame) /\ Len(inbox') <= Capacity /\ Rising(inbox', lo, Applied)
      /\ \A i \in DOMAIN inbox' :
            (\E k \in DOMAIN inbox : inbox'[i] = inbox[k])
            \/ inbox'[i] \in {Progress(outcome.n), Finished(outcome)}
      /\ ~sub => inbox' = inbox
  <2>1. /\ Progress(outcome.n) \in Frame /\ Finished(outcome) \in Frame
        /\ Progress(outcome.n).type # "opApplied" /\ Finished(outcome).type # "opApplied"
        /\ Progress(outcome.n).n <= Applied /\ Finished(outcome).n <= Applied
    BY <1>0, FrameType DEF Progress, Finished
  <2>2. inbox' = AfterSend(<<Progress(outcome.n), Finished(outcome)>>) /\ lo \in Nat
    BY <1>0 DEF Announce
  <2> QED BY <1>0, <1>2, <2>1, <2>2, SendTwo
<1>4. TypeOK'
  BY <1>0, <1>3, StreamAssumption DEF Announce, TypeOK, clientVars
<1>5. Within'
  BY <1>1, <1>2, <1>3 DEF Within, Rising, Bounds, Announce, clientVars
<1>6. FinishedTells'
  <2>1. outcome.state # "running" /\ UNCHANGED <<frames, outcome>>
    BY DEF Announce, StreamInv, Outcome
  <2> QED BY <1>3, <2>1 DEF StreamInv, FinishedTells, Tells, Progress, Finished
<1>7. Outcome' /\ Closed' /\ SettledShowsOutcome'
  BY <1>1, <1>3 DEF Announce, StreamInv, Outcome, Closed, SettledShowsOutcome, clientVars
<1> QED BY <1>4, <1>5, <1>6, <1>7 DEF StreamInv

\* The stream of a client that is not done is closed: nothing is queued.
LEMMA StreamCut ==
    ASSUME StreamInv, ~settled, UNCHANGED <<row, done, outcome, shown, settled>>,
           frames' = <<>>, inbox' = <<>>, sub' = FALSE, handler' \in {"none", "backoff", "snapshot"}
    PROVE  /\ Applied' = Applied /\ FinishedTells' /\ Closed' /\ SettledShowsOutcome' /\ Within'
           /\ frames' \in Seq(Frame) /\ Len(frames') <= 2
           /\ inbox' \in Seq(Frame) /\ Len(inbox') <= Capacity
<1>1. Applied' = Applied /\ Applied \in Nat
  BY AppliedType DEF Applied, AppliedBy
<1>2. <<>> \in Seq(Frame) /\ Len(<<>>) = 0 /\ DOMAIN <<>> = {}
  OBVIOUS
<1>3. FinishedTells' /\ Closed' /\ SettledShowsOutcome'
  BY <1>2 DEF FinishedTells, Closed, SettledShowsOutcome
<1>4. shown <= Applied
  <2>1. PICK lo \in 0..Applied : shown <= lo
    BY DEF StreamInv, Within
  <2>2. shown \in Nat
    BY DEF StreamInv, TypeOK
  <2> QED BY <1>1, <2>1, <2>2
<1>5. Within'
  <2>1. Rising(<<>>, Applied, Applied) /\ Applied \in 0..Applied
    BY <1>1, RisingEmpty
  <2>2. Rising(inbox', Applied', Applied')
    BY <1>1, <2>1
  <2> QED BY <1>1, <1>2, <1>4, <2>1, <2>2 DEF Within, Rising, Bounds
<1> QED BY <1>1, <1>2, <1>3, <1>5, StreamAssumption

\* The other steps of the workers and the driver, and a crash: nothing is sent.
LEMMA JobStep ==
    ASSUME StreamInv,
           Decide \/ Persist \/ RemoveChannel \/ Crash \/ \E a \in Accounts : EndWorker(a)
    PROVE  StreamInv'
<1>0. TypeOK /\ Applied \in Nat /\ Applied' = Applied
  BY AppliedType DEF StreamInv, Applied, AppliedBy, Decide, Persist, RemoveChannel, Crash, EndWorker
<1>1. ASSUME NEW a \in Accounts, EndWorker(a) PROVE StreamInv'
  <2>1. TypeOK'
    BY <1>0, <1>1 DEF EndWorker, TypeOK, clientVars, handlerVars
  <2>2. Within'
    BY <1>0, <1>1, SameWithin DEF EndWorker, StreamInv, clientVars, handlerVars
  <2> QED BY <1>0, <1>1, <2>1, <2>2 DEF EndWorker, StreamInv, Outcome, FinishedTells, Tells, Closed,
             SettledShowsOutcome, clientVars, handlerVars
<1>2. CASE Decide
  <2> DEFINE S == {a \in Accounts : work[a] = "ok"}
  <2>1. /\ driver = "running" /\ driver' = "decided" /\ outcome.state = "running"
        /\ outcome' \in [state : {"finished", "failed", "cancelled"}, n : {AppliedBy(S)}]
        /\ UNCHANGED <<row, work, done, cancelled, handlerVars, clientVars, faults>>
    BY <1>2 DEF Decide, StreamInv, Outcome
  <2>2. S \in SUBSET Accounts
    OBVIOUS
  <2>3. AppliedBy(S) \in Nat /\ AppliedBy(S) <= Applied
    <3> HIDE DEF S
    <3> QED BY <2>2, AppliedByType
  <2> HIDE DEF S
  <2>4. TypeOK'
    BY <1>0, <2>1, <2>3 DEF TypeOK, clientVars, handlerVars
  <2>5. Within'
    BY <1>0, <2>1, SameWithin DEF StreamInv, clientVars, handlerVars
  <2>6. ~settled /\ row.state = "running"
    BY <2>1 DEF StreamInv, SettledShowsOutcome, Outcome
  <2>7. Outcome'
    BY <1>0, <2>1, <2>3, <2>6 DEF StreamInv, Outcome
  <2>8. FinishedTells'
    BY <2>1 DEF StreamInv, FinishedTells, Tells, handlerVars
  <2> QED BY <2>1, <2>4, <2>5, <2>6, <2>7, <2>8 DEF StreamInv, Closed, SettledShowsOutcome,
             clientVars, handlerVars
<1>3. CASE Persist
  <2>1. TypeOK'
    BY <1>0, <1>3 DEF Persist, TypeOK, clientVars, handlerVars
  <2>2. Within'
    BY <1>0, <1>3, SameWithin DEF Persist, StreamInv, clientVars, handlerVars
  <2> QED BY <1>0, <1>3, <2>1, <2>2 DEF Persist, StreamInv, Outcome, FinishedTells, Tells, Closed,
             SettledShowsOutcome, clientVars, handlerVars
<1>4. CASE RemoveChannel
  <2>1. TypeOK'
    BY <1>0, <1>4 DEF RemoveChannel, TypeOK, clientVars, handlerVars
  <2>2. Within'
    BY <1>0, <1>4, SameWithin DEF RemoveChannel, StreamInv, clientVars, handlerVars
  <2> QED BY <1>0, <1>4, <2>1, <2>2 DEF RemoveChannel, StreamInv, Outcome, FinishedTells, Tells,
             Closed, SettledShowsOutcome, clientVars, handlerVars
<1>5. CASE Crash
  <2>1. /\ UNCHANGED <<row, done, cancelled, outcome, clientVars, faults>>
        /\ driver' = "dead" /\ work' = [a \in Accounts |-> "err"]
    BY <1>5 DEF Crash
  <2>2. Outcome'
    BY <1>0, <2>1 DEF StreamInv, Outcome
  <2>3. CASE UNCHANGED handlerVars
    <3>1. TypeOK'
      BY <1>0, <2>1, <2>3 DEF TypeOK, clientVars, handlerVars
    <3>2. Within'
      BY <1>0, <2>1, <2>3, SameWithin DEF StreamInv, clientVars, handlerVars
    <3> QED BY <2>1, <2>2, <2>3, <3>1, <3>2 DEF StreamInv, FinishedTells, Tells, Closed,
               SettledShowsOutcome, clientVars, handlerVars
  <2>4. CASE handler \notin {"none", "backoff"} /\ OnError
    <3>1. ~settled
      BY <2>4 DEF StreamInv, Closed
    <3>2. /\ Applied' = Applied /\ FinishedTells' /\ Closed' /\ SettledShowsOutcome' /\ Within'
          /\ frames' \in Seq(Frame) /\ Len(frames') <= 2
          /\ inbox' \in Seq(Frame) /\ Len(inbox') <= Capacity
      BY <2>1, <2>4, <3>1, StreamCut DEF OnError, clientVars
    <3>3. TypeOK'
      BY <1>0, <2>1, <2>4, <3>2 DEF OnError, TypeOK, clientVars
    <3> QED BY <2>2, <3>2, <3>3 DEF StreamInv
  <2> QED BY <1>5, <2>3, <2>4 DEF Crash
<1> QED BY <1>1, <1>2, <1>3, <1>4, <1>5

-----------------------------------------------------------------------------
(* The steps of the request and of the hook *)

\* The stream is closed, by either side or by the network, or asked for anew.
LEMMA StreamOver ==
    ASSUME StreamInv, ~settled, UNCHANGED <<jobVars, shown, cancelReq, settled>>,
           OpenStream \/ CloseStream \/ OnError,
           ui' \in {"starting", "running"} \cup Terminal, faults' \in 0..MaxFaults
    PROVE  StreamInv'
<1>0. TypeOK
  BY DEF StreamInv
<1>1. /\ frames' = <<>> /\ inbox' = <<>> /\ sub' = FALSE
      /\ handler' \in {"none", "backoff", "snapshot"}
  BY DEF OpenStream, CloseStream, OnError
<1>2. /\ Applied' = Applied /\ FinishedTells' /\ Closed' /\ SettledShowsOutcome' /\ Within'
      /\ frames' \in Seq(Frame) /\ Len(frames') <= 2
      /\ inbox' \in Seq(Frame) /\ Len(inbox') <= Capacity
  BY <1>1, StreamCut DEF jobVars
<1>3. TypeOK'
  BY <1>0, <1>1, <1>2 DEF TypeOK, jobVars
<1>4. Outcome'
  BY <1>2 DEF StreamInv, Outcome, jobVars
<1> QED BY <1>2, <1>3, <1>4 DEF StreamInv

LEMMA FaultType ==
    ASSUME TypeOK, faults < MaxFaults, faults' = faults + 1 PROVE faults' \in 0..MaxFaults
BY StreamAssumption DEF TypeOK

LEMMA SourceStep ==
    ASSUME StreamInv, StartReply \/ StreamEnds \/ Disconnect \/ TimerFires \/ Reconnect
    PROVE  StreamInv'
<1>0. TypeOK /\ ui \in {"starting", "running"} \cup Terminal /\ faults \in 0..MaxFaults
  BY DEF StreamInv, TypeOK
<1>1. CASE StartReply
  <2>1. ~settled
    BY <1>1 DEF StartReply, StreamInv, Closed, Terminal
  <2>2. CASE OpenStream /\ ui' = "running" /\ UNCHANGED faults
    BY <1>0, <1>1, <2>1, <2>2, StreamOver DEF StartReply
  <2>3. CASE faults < MaxFaults /\ faults' = faults + 1 /\ ui' = "error" /\ UNCHANGED handlerVars
    <3>1. Applied' = Applied
      BY <1>1 DEF StartReply, jobVars, Applied, AppliedBy
    <3>2. TypeOK'
      BY <1>0, <1>1, <2>3, FaultType DEF StartReply, TypeOK, jobVars, handlerVars, Terminal
    <3>3. Within'
      BY <1>0, <1>1, <2>3, <3>1, SameWithin DEF StartReply, StreamInv, handlerVars
    <3> QED BY <1>1, <2>1, <2>3, <3>1, <3>2, <3>3 DEF StartReply, StreamInv, Outcome,
               FinishedTells, Tells, Closed, SettledShowsOutcome, jobVars, handlerVars
  <2> QED BY <1>1, <2>2, <2>3 DEF StartReply
<1>2. CASE StreamEnds
  <2>1. ~settled
    BY <1>2 DEF StreamEnds, StreamInv, Closed
  <2> QED BY <1>0, <1>2, <2>1, StreamOver DEF StreamEnds, clientVars
<1>3. CASE Disconnect
  <2>1. ~settled
    BY <1>3 DEF Disconnect, StreamInv, Closed
  <2> QED BY <1>0, <1>3, <2>1, FaultType, StreamOver DEF Disconnect, clientVars
<1>4. CASE TimerFires
  <2>1. ~settled
    BY <1>4 DEF TimerFires, StreamInv, Closed
  <2> QED BY <1>0, <1>4, <2>1, StreamOver DEF TimerFires, clientVars
<1>5. CASE Reconnect
  <2>1. ~settled
    BY <1>5 DEF Reconnect, StreamInv, Closed, Terminal
  <2> QED BY <1>0, <1>5, <2>1, FaultType, StreamOver DEF Reconnect, clientVars
<1> QED BY <1>1, <1>2, <1>3, <1>4, <1>5

\* The frames ahead of the live events say no more than was applied.
LEMMA FramesSay ==
    ASSUME StreamInv
    PROVE  frames \in Seq(Frame) /\ \A i \in DOMAIN frames :
               frames[i] \in Frame /\ frames[i].type # "opApplied" /\ frames[i].n <= Applied
<1>1. PICK lo \in 0..Applied :
        \A i \in DOMAIN frames : frames[i].type # "opApplied" /\ frames[i].n <= lo
  BY DEF StreamInv, Within
<1>2. frames \in Seq(Frame) /\ Applied \in Nat
  BY AppliedType DEF StreamInv, TypeOK
<1>3. SUFFICES ASSUME NEW i \in DOMAIN frames
               PROVE  frames[i] \in Frame /\ frames[i].type # "opApplied" /\ frames[i].n <= Applied
  BY <1>2
<1>4. i \in 1..Len(frames)
  BY <1>2, LenProperties
<1>5. frames[i] \in Frame
  BY <1>2, <1>4, ElementOfSeq
<1>6. frames[i].n \in Nat
  BY <1>5 DEF Frame
<1> QED BY <1>1, <1>2, <1>5, <1>6

\* The answer to a subscription.
LEMMA HandlerStepKeeps ==
    ASSUME StreamInv, ReadSnapshot \/ Subscribe \/ Synthesize PROVE StreamInv'
<1>0. TypeOK /\ Applied \in Nat /\ faults \in 0..MaxFaults /\ row.n \in Nat /\ row.n <= Applied
      /\ row \in [state : {"running", "finished", "failed", "cancelled"}, n : Nat]
  BY AppliedType DEF StreamInv, TypeOK, Outcome
<1>1. /\ Applied' = Applied /\ UNCHANGED <<jobVars, inbox, clientVars>>
      /\ handler \in {"snapshot", "subscribe", "terminal"}
  BY DEF ReadSnapshot, Subscribe, Synthesize, jobVars, Applied, AppliedBy
<1>2. ~settled /\ inbox = <<>> /\ ~sub
  BY <1>1 DEF StreamInv, Closed
<1>3. shown <= Applied /\ shown \in Nat
  <2>1. PICK lo \in 0..Applied : shown <= lo
    BY DEF StreamInv, Within
  <2>2. shown \in Nat
    BY <1>0 DEF TypeOK
  <2> QED BY <1>0, <2>1, <2>2
<1>4. Rising(inbox', Applied', Applied')
  BY <1>0, <1>1, <1>2, RisingEmpty DEF Rising, Bounds
<1>5. ASSUME \A i \in DOMAIN frames' :
                /\ frames'[i].type # "opApplied" /\ frames'[i].n <= Applied
                /\ \/ frames'[i].type # "finished"
                   \/ frames'[i] = Finished(row) /\ row.state # "running"
                   \/ \E k \in DOMAIN frames : frames'[i] = frames[k],
             frames' \in Seq(Frame), Len(frames') <= 2, faults' \in 0..MaxFaults,
             sub' \in BOOLEAN, handler' \in {"subscribe", "terminal", "open"},
             handler' # "open" => Len(frames') <= 1 /\ ~sub'
      PROVE  StreamInv'
  <2>1. TypeOK'
    BY <1>0, <1>1, <1>5 DEF TypeOK, jobVars, clientVars
  <2>2. Within'
    <3>1. Applied \in 0..Applied'
      BY <1>0, <1>1
    <3>2. shown' <= Applied /\ \A i \in DOMAIN frames' :
              frames'[i].type # "opApplied" /\ frames'[i].n <= Applied
      BY <1>1, <1>3, <1>5 DEF clientVars
    <3> QED BY <1>1, <1>4, <3>1, <3>2 DEF Within, Rising, Bounds
  <2>3. Outcome'
    BY <1>1 DEF StreamInv, Outcome, jobVars
  <2>4. FinishedTells'
    <3>1. UNCHANGED outcome /\ (row.state # "running" => row = outcome)
      BY <1>1 DEF StreamInv, Outcome, jobVars
    <3> QED BY <1>1, <1>2, <1>5, <3>1 DEF StreamInv, FinishedTells, Tells, Finished
  <2>5. Closed' /\ SettledShowsOutcome'
    BY <1>1, <1>2, <1>5 DEF Closed, SettledShowsOutcome, clientVars
  <2> QED BY <2>1, <2>2, <2>3, <2>4, <2>5 DEF StreamInv
<1>6. CASE ReadSnapshot
  <2>1. /\ handler' = "subscribe" /\ sub' = FALSE /\ faults' \in 0..MaxFaults
        /\ frames' \in {<<Snapshot(row.n)>>, <<>>}
    BY <1>0, <1>2, <1>6, FaultType DEF ReadSnapshot
  <2>2. /\ Snapshot(row.n) \in Frame /\ Snapshot(row.n).type = "snapshot"
        /\ Snapshot(row.n).n = row.n
    BY <1>0, FrameType DEF Snapshot
  <2>3. /\ frames' \in Seq(Frame) /\ Len(frames') <= 1
        /\ \A i \in DOMAIN frames' : frames'[i] = Snapshot(row.n)
    <3>1. \A fr \in Frame : /\ <<fr>> \in Seq(Frame) /\ Len(<<fr>>) = 1
                            /\ \A i \in DOMAIN <<fr>> : <<fr>>[i] = fr
      OBVIOUS
    <3>2. <<>> \in Seq(Frame) /\ Len(<<>>) = 0 /\ DOMAIN <<>> = {}
      OBVIOUS
    <3> HIDE DEF Snapshot
    <3>3. CASE frames' = <<Snapshot(row.n)>>
      BY <2>2, <3>1, <3>3
    <3>4. CASE frames' = <<>>
      BY <3>2, <3>4
    <3> QED BY <2>1, <3>3, <3>4
  <2>4. Len(frames') <= 2
    BY <2>3, LenProperties
  <2>5. \A i \in DOMAIN frames' : frames'[i].type = "snapshot" /\ frames'[i].n <= Applied
    BY <1>0, <2>2, <2>3
  <2> QED BY <1>5, <2>1, <2>3, <2>4, <2>5
<1>7. CASE Subscribe
  <2>1. /\ handler' \in {"terminal", "open"} /\ sub' \in BOOLEAN /\ UNCHANGED <<frames, faults>>
        /\ (handler' # "open" => ~sub') /\ Len(frames) <= 1
    <3>1. handler = "subscribe" /\ Len(frames) <= 1 /\ UNCHANGED <<frames, faults>>
      BY <1>7 DEF Subscribe, StreamInv, Closed
    <3>2. CASE HasChannel
      BY <1>7, <3>1, <3>2 DEF Subscribe
    <3>3. CASE ~HasChannel
      <4>1. sub' = HasChannel /\ HasChannel = FALSE /\ handler' = "terminal"
        BY <1>7, <3>3 DEF Subscribe, HasChannel
      <4> QED BY <3>1, <4>1
    <3> QED BY <3>2, <3>3
  <2>2. frames \in Seq(Frame) /\ \A i \in DOMAIN frames : frames[i].type # "opApplied"
                                                         /\ frames[i].n <= Applied
    BY FramesSay
  <2> QED BY <1>0, <1>5, <2>1, <2>2
<1>8. CASE Synthesize
  <2>1. /\ handler' = "open" /\ sub' = FALSE /\ faults' \in 0..MaxFaults /\ Len(frames) <= 1
        /\ \/ frames' = frames
           \/ frames' = Append(frames, Finished(row)) /\ row.state # "running"
    BY <1>0, <1>2, <1>8, FaultType DEF Synthesize, StreamInv, Closed
  <2>2. frames \in Seq(Frame) /\ \A i \in DOMAIN frames : frames[i].type # "opApplied"
                                                         /\ frames[i].n <= Applied
    BY FramesSay
  <2>3. Finished(row) \in Frame /\ Finished(row).type = "finished" /\ Finished(row).n = row.n
    BY <1>0, FrameType DEF Finished
  <2>4. /\ Append(frames, Finished(row)) \in Seq(Frame)
        /\ Len(Append(frames, Finished(row))) = Len(frames) + 1
        /\ \A i \in DOMAIN Append(frames, Finished(row)) :
              \/ Append(frames, Finished(row))[i] = Finished(row)
              \/ i \in DOMAIN frames /\ Append(frames, Finished(row))[i] = frames[i]
    BY <2>2, <2>3
  <2>5. Len(frames) \in Nat
    BY <2>2, LenProperties
  <2>6. /\ frames' \in Seq(Frame) /\ Len(frames') <= 2
        /\ \A i \in DOMAIN frames' :
              \/ frames'[i] = Finished(row) /\ row.state # "running"
              \/ \E k \in DOMAIN frames : frames'[i] = frames[k]
    BY <2>1, <2>2, <2>4, <2>5
  <2>7. \A i \in DOMAIN frames' : frames'[i].type # "opApplied" /\ frames'[i].n <= Applied
    <3> HIDE DEF Finished
    <3> QED BY <1>0, <2>2, <2>3, <2>6
  <2> QED BY <1>5, <2>1, <2>6, <2>7
<1> QED BY <1>6, <1>7, <1>8

\* The hook reduces the next frame.
LEMMA ReceiveStep ==
    ASSUME StreamInv, Receive PROVE StreamInv'
<1> DEFINE queue == frames \o inbox
           ev    == Head(queue)
<1>0. /\ TypeOK /\ Applied \in Nat /\ Applied' = Applied /\ shown \in Nat
      /\ handler = "open" /\ ~settled /\ UNCHANGED <<jobVars, cancelReq, faults>>
      /\ frames \in Seq(Frame) /\ inbox \in Seq(Frame)
      /\ queue # <<>> /\ shown' = Reduced(ev)
  BY AppliedType DEF Receive, StreamInv, TypeOK, Closed, jobVars, Applied, AppliedBy
<1>1. PICK lo \in 0..Applied :
        /\ shown <= lo
        /\ \A i \in DOMAIN frames : frames[i].type # "opApplied" /\ frames[i].n <= lo
        /\ Rising(inbox, lo, Applied)
  BY DEF StreamInv, Within
\* The event is the first frame, or, when there is none, the first live event;
\* reducing it stays below a bound of the events that remain.
<1>2. /\ ev \in Frame /\ Tells(ev)
      /\ \E low \in 0..Applied :
            /\ Reduced(ev) \in 0..low
            /\ IF frames # <<>> THEN low = lo ELSE Rising(Tail(inbox), low, Applied)
  <2>1. CASE frames # <<>>
    <3>1. Len(frames) \in Nat /\ Len(frames) # 0 /\ 1 \in DOMAIN frames
      BY <1>0, <2>1, LenProperties, EmptySeq
    <3>2. ev = frames[1]
      BY <1>0, <3>1
    <3>3. frames[1] \in Frame /\ Tells(frames[1])
      BY <3>1, FramesSay DEF StreamInv, FinishedTells
    <3>4. Reduced(frames[1]) = frames[1].n /\ frames[1].n \in Nat /\ frames[1].n <= lo
      BY <1>1, <3>1, <3>3 DEF Reduced, Frame
    <3> HIDE DEF ev
    <3> QED BY <1>0, <1>1, <2>1, <3>2, <3>3, <3>4
  <2>2. CASE frames = <<>>
    <3>1. queue = inbox /\ inbox # <<>>
      BY <1>0, <2>2
    <3>2. Len(inbox) \in Nat /\ Len(inbox) # 0 /\ 1 \in DOMAIN inbox
      BY <1>0, <3>1, LenProperties, EmptySeq
    <3>3. ev = inbox[1] /\ inbox[1] \in Frame /\ Tells(inbox[1])
      BY <1>0, <3>1, <3>2, ElementOfSeq DEF StreamInv, FinishedTells
    <3>4. Reduced(inbox[1]) \in 0..Applied /\ Rising(Tail(inbox), Reduced(inbox[1]), Applied)
      BY <1>0, <1>1, <3>1, RisingReceives DEF Reduced
    <3>5. Reduced(inbox[1]) \in 0..Reduced(inbox[1])
      BY <1>0, <3>4
    <3> HIDE DEF ev
    <3> QED BY <2>2, <3>3, <3>4, <3>5
  <2> QED BY <2>1, <2>2
<1>3. CASE ev.type = "finished"
  <2>1. /\ ui' = Shows(ev.status) /\ settled' = TRUE /\ CloseStream
        /\ UNCHANGED <<jobVars, cancelReq, faults>>
    BY <1>3 DEF Receive
  <2>2. /\ ev.status = outcome.state /\ ev.n = outcome.n /\ outcome.state # "running"
        /\ shown' = outcome.n
    <3> HIDE DEF ev
    <3> QED BY <1>0, <1>2, <1>3 DEF Tells, Reduced
  <2>3. Shows(ev.status) \in Terminal
    BY DEF Shows, Terminal
  <2> HIDE DEF ev
  <2>4. /\ <<>> \in Seq(Frame) /\ Len(<<>>) = 0 /\ DOMAIN <<>> = {}
    OBVIOUS
  <2>5. TypeOK'
    <3>1. /\ frames' \in Seq(Frame) /\ Len(frames') <= 2
          /\ inbox' \in Seq(Frame) /\ Len(inbox') <= Capacity
      BY <2>1, <2>4, StreamAssumption DEF CloseStream
    <3>2. shown' \in Nat /\ ui' \in Terminal
      BY <1>0, <2>1, <2>2, <2>3 DEF TypeOK
    <3> QED BY <1>0, <2>1, <3>1, <3>2 DEF TypeOK, CloseStream, jobVars
  <2>6. Outcome' /\ Closed' /\ FinishedTells' /\ SettledShowsOutcome'
    BY <1>0, <2>1, <2>2, <2>3, <2>4 DEF StreamInv, Outcome, Closed, FinishedTells, Tells,
       SettledShowsOutcome, CloseStream, jobVars
  <2>7. Within'
    <3>1. Rising(inbox', Applied', Applied') /\ Applied \in 0..Applied'
      BY <1>0, <2>1, RisingEmpty DEF CloseStream, Rising, Bounds
    <3>2. shown' <= Applied /\ shown' = outcome.n
      BY <2>2 DEF StreamInv, Outcome
    <3> QED BY <1>0, <2>1, <2>4, <3>1, <3>2 DEF Within, Rising, Bounds, CloseStream
  <2> QED BY <2>5, <2>6, <2>7 DEF StreamInv
<1>4. CASE ev.type # "finished"
  <2>1. /\ UNCHANGED <<ui, settled, handler, sub, jobVars, cancelReq, faults>>
        /\ IF frames # <<>> THEN frames' = Tail(frames) /\ UNCHANGED inbox
                            ELSE inbox' = Tail(inbox) /\ UNCHANGED frames
    BY <1>4 DEF Receive
  <2>2. PICK low \in 0..Applied :
            /\ Reduced(ev) \in 0..low
            /\ IF frames # <<>> THEN low = lo ELSE Rising(Tail(inbox), low, Applied)
    BY <1>2
  <2>3. frames = <<>> => inbox # <<>>
    BY <1>0
  <2> HIDE DEF ev, queue
  <2>4. /\ frames' \in Seq(Frame) /\ Len(frames') <= 2
        /\ \A i \in DOMAIN frames' : \E k \in DOMAIN frames : frames'[i] = frames[k]
    <3>1. CASE frames = <<>>
      BY <1>0, <2>1, <3>1 DEF TypeOK
    <3>2. CASE frames # <<>>
      <4>1. /\ Tail(frames) \in Seq(Frame) /\ Len(Tail(frames)) <= 2
            /\ \A i \in DOMAIN Tail(frames) : \E k \in DOMAIN frames : Tail(frames)[i] = frames[k]
        BY <1>0, <3>2, TailKeeps DEF TypeOK
      <4> QED BY <2>1, <3>2, <4>1
    <3> QED BY <3>1, <3>2
  <2>5. /\ inbox' \in Seq(Frame) /\ Len(inbox') <= Capacity
        /\ \A i \in DOMAIN inbox' : \E k \in DOMAIN inbox : inbox'[i] = inbox[k]
    <3>1. CASE frames # <<>>
      BY <1>0, <2>1, <3>1 DEF TypeOK
    <3>2. CASE frames = <<>>
      <4>1. /\ Tail(inbox) \in Seq(Frame) /\ Len(Tail(inbox)) <= Capacity
            /\ \A i \in DOMAIN Tail(inbox) : \E k \in DOMAIN inbox : Tail(inbox)[i] = inbox[k]
        BY <1>0, <2>3, <3>2, TailKeeps, StreamAssumption DEF TypeOK
      <4> QED BY <2>1, <3>2, <4>1
    <3> QED BY <3>1, <3>2
  <2>6. TypeOK'
    BY <1>0, <2>1, <2>2, <2>4, <2>5 DEF TypeOK, jobVars
  <2>7. Outcome' /\ Closed' /\ SettledShowsOutcome'
    BY <1>0, <2>1 DEF StreamInv, Outcome, Closed, SettledShowsOutcome, jobVars
  <2>8. FinishedTells'
    BY <2>1, <2>4, <2>5 DEF StreamInv, FinishedTells, Tells, jobVars
  <2>9. Within'
    <3>1. low \in 0..Applied' /\ shown' <= low
      BY <1>0, <2>2
    <3>2. Rising(inbox', low, Applied')
      <4>1. Rising(inbox', low, Applied)
        BY <1>1, <2>1, <2>2
      <4> QED BY <1>0, <4>1
    <3>3. \A i \in DOMAIN frames' : frames'[i].type # "opApplied" /\ frames'[i].n <= low
      <4>1. CASE frames = <<>>
        BY <2>1, <4>1
      <4>2. CASE frames # <<>>
        BY <1>1, <2>2, <2>4, <4>2
      <4> QED BY <4>1, <4>2
    <3> QED BY <3>1, <3>2, <3>3 DEF Within, Rising, Bounds
  <2> QED BY <2>6, <2>7, <2>8, <2>9 DEF StreamInv
<1> QED BY <1>3, <1>4

\* The cancel button, its request and its answer.
LEMMA CancelStep ==
    ASSUME StreamInv, CancelClick \/ CancelHandled \/ CancelReply PROVE StreamInv'
<1>0. TypeOK /\ Applied' = Applied /\ HasChannel \in BOOLEAN
  BY DEF StreamInv, CancelClick, CancelHandled, CancelReply, jobVars, Applied, AppliedBy, HasChannel
<1>1. /\ UNCHANGED <<row, driver, work, done, outcome, handlerVars, shown, settled, faults>>
      /\ cancelled' \in BOOLEAN /\ cancelReq' \in {"no", "sent", "ok", "notFound", "over"}
      /\ ui' \in {ui, "cancelled"} /\ (ui \in Terminal => ui' = ui)
  <2>1. CASE CancelClick
    BY <1>0, <2>1 DEF CancelClick, jobVars, TypeOK
  <2>2. CASE CancelHandled
    BY <1>0, <2>2 DEF CancelHandled, TypeOK
  <2>3. CASE CancelReply
    BY <1>0, <2>3 DEF CancelReply, jobVars, TypeOK
  <2> QED BY <2>1, <2>2, <2>3
<1>2. TypeOK'
  BY <1>0, <1>1 DEF TypeOK, handlerVars, Terminal
<1>3. Within'
  BY <1>0, <1>1, SameWithin DEF StreamInv, handlerVars
<1> QED BY <1>0, <1>1, <1>2, <1>3 DEF StreamInv, Outcome, FinishedTells, Tells, Closed,
           SettledShowsOutcome, handlerVars

-----------------------------------------------------------------------------
(* The theorems *)

LEMMA StreamInit == Init => StreamInv
<1> SUFFICES ASSUME Init PROVE StreamInv
  OBVIOUS
<1>1. <<>> \in Seq(Frame) /\ Len(<<>>) = 0 /\ DOMAIN <<>> = {}
  OBVIOUS
<1>2. Applied \in Nat
  BY AppliedType
<1>3. TypeOK
  <2>1. frames \in Seq(Frame) /\ Len(frames) <= 2 /\ inbox \in Seq(Frame) /\ Len(inbox) <= Capacity
    BY <1>1, StreamAssumption DEF Init
  <2>2. done \in [Accounts -> 0..MaxOps] /\ faults \in 0..MaxFaults
    BY StreamAssumption DEF Init
  <2> QED BY <2>1, <2>2 DEF Init, TypeOK
<1>4. Rising(inbox, Applied, Applied)
  BY <1>2, RisingEmpty DEF Init
<1>5. Within
  BY <1>1, <1>2, <1>4 DEF Within, Init
<1> QED BY <1>1, <1>2, <1>3, <1>5 DEF StreamInv, Outcome, FinishedTells, Closed,
           SettledShowsOutcome, Init

LEMMA StreamStep == StreamInv /\ [Next]_vars => StreamInv'
<1> SUFFICES ASSUME StreamInv, [Next]_vars PROVE StreamInv'
  OBVIOUS
<1>1. CASE Next
  BY <1>1, ApplyRowStep, EmitProgressStep, AnnounceStep, JobStep, SourceStep, HandlerStepKeeps,
     ReceiveStep, CancelStep
     DEF Next, WorkerStep, DriverStep, HandlerStep, ClientStep
<1>2. CASE UNCHANGED vars
  <2>1. UNCHANGED <<row, driver, work, done, cancelled, outcome, handler, frames, sub, inbox,
                    ui, shown, cancelReq, settled, faults>>
    BY <1>2 DEF vars, jobVars, handlerVars, clientVars
  <2>2. TypeOK'
    BY <2>1 DEF StreamInv, TypeOK
  <2>3. Applied' = Applied
    BY <2>1 DEF Applied, AppliedBy
  <2>4. Within'
    BY <2>1, <2>3, SameWithin DEF StreamInv
  <2> QED BY <2>1, <2>2, <2>3, <2>4 DEF StreamInv, Outcome, FinishedTells, Tells, Closed,
             SettledShowsOutcome
<1> QED BY <1>1, <1>2

THEOREM StreamInvHolds == Spec => []StreamInv
BY StreamInit, StreamStep, PTL DEF Spec

\* The variables of the job, of the request and of the hook have their types:
\* the receiver never holds more events than the channel's capacity.
THEOREM StreamTypesHold == Spec => []TypeOK
<1>1. StreamInv => TypeOK
  BY DEF StreamInv
<1> QED BY <1>1, StreamInvHolds, PTL

\* The hook never shows more operations than were applied, and once it has
\* reduced a finished event it shows the outcome the driver decided, and keeps
\* showing it: for any number of accounts, any capacity of the channel, any
\* lost connection, failed load or crash.
THEOREM StreamShowsWhatHappened == Spec => []ShowsWhatHappened
<1>1. StreamInv => ShowsWhatHappened
  <2> SUFFICES ASSUME StreamInv PROVE NeverOverclaims /\ SettledShowsOutcome
    BY DEF ShowsWhatHappened
  <2>1. PICK lo \in 0..Applied : shown <= lo
    BY DEF StreamInv, Within
  <2>2. shown \in Nat /\ Applied \in Nat
    BY AppliedType DEF StreamInv, TypeOK
  <2>3. shown <= Applied
    BY <2>1, <2>2
  <2> QED BY <2>3 DEF StreamInv, NeverOverclaims
<1> QED BY <1>1, StreamInvHolds, PTL
=============================================================================
