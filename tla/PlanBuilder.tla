---------------------------- MODULE PlanBuilder -----------------------------
(***************************************************************************)
(* How the inbox cleaner turns the selections of the wizard into a plan:   *)
(* one lookup after another, each an await, over rows that the mail sync,  *)
(* the reclustering and the user keep changing, and then one transaction.  *)
(* The history marker read for each account first is the baseline against  *)
(* which drift is judged when the plan is applied.                         *)
(***************************************************************************)
EXTENDS Integers, FiniteSets, Sequences, SequencesExt

CONSTANTS
    PlanAccounts,
    MailsOf,        \* the messages each account may hold
    ProviderOf,     \* "gmail", "outlook", "imap" or "pop3", by account
    PlanClusters,
    RuleFirst,      \* the first action of each rule, "none" when it has none
    Selections,     \* [accounts, subs, clusters, rules, archive]
    BulkLimit,      \* 1000 in the code
    MaxHistory,     \* bound on the history numbers of a mailbox
    MaxSyncs,       \* bound on the syncs, by account
    MaxLocal        \* bound on reclusterings and local deletions together

NoMail == "none"

ClusterActions == {"archive", "delete", "deletePermanent", "addLabel"}

\* "none" for a rule without an action.
RuleActions ==
    {"addLabel", "removeLabel", "archive", "delete", "deletePermanent", "forward", "markRead",
     "markImportant", "none"}

PlanActions ==
    {"archive", "addLabel", "move", "delete", "deletePermanent", "unsubscribe", "markRead", "star"}

(* A message belongs to one account; the wizard offers accounts, clusters    *)
(* and rules that exist.                                                     *)
ASSUME PlanAssumption ==
    /\ BulkLimit \in Nat \ {0} /\ MaxHistory \in Nat \ {0}
    /\ IsFiniteSet(DOMAIN RuleFirst) /\ \A r \in DOMAIN RuleFirst : RuleFirst[r] \in RuleActions
    /\ \A a \in PlanAccounts : IsFiniteSet(MailsOf[a]) /\ NoMail \notin MailsOf[a]
    /\ \A a, b \in PlanAccounts : a # b => MailsOf[a] \cap MailsOf[b] = {}
    /\ \A sel \in Selections :
          /\ sel.accounts \in Seq(PlanAccounts) /\ sel.subs \in Seq(PlanAccounts)
          /\ sel.clusters \in Seq([cluster : PlanClusters, account : PlanAccounts, action : ClusterActions])
          /\ sel.rules \in Seq([account : PlanAccounts, rule : DOMAIN RuleFirst])
          /\ sel.archive \in BOOLEAN

VARIABLES
    inStore,         \* messages with a row
    remoteHistory,  \* the history number at the provider, by account
    pending,        \* what changed there since the marker: [mail, at]
    marker,         \* sync_state.history_id, 0 when NULL
    syncing,        \* "no", "delta" or "full", by account
    upTo,           \* the history number a delta under way listed up to
    members,        \* topic_clusters.email_ids, by cluster
    phase,          \* "idle", "building" or "saved"
    todo,           \* the lookups still ahead
    baseline,       \* account_state_etags, by account
    operations,     \* the plan's rows, materialised ones first; seq is the place
    syncs, regroups, localChanges,      \* how often it happened
    unmarked        \* accounts whose rows changed without the marker saying so

worldVars == <<inStore, remoteHistory, pending, marker, syncing, upTo, members,
               syncs, regroups, localChanges>>
draftVars == <<phase, todo, baseline, operations>>
planVars == <<worldVars, draftVars, unmarked>>

AllMails == UNION {MailsOf[a] : a \in PlanAccounts}
OwnerOf(m) == CHOOSE a \in PlanAccounts : m \in MailsOf[a]
RowsOf(a) == inStore \cap MailsOf[a]

Etags == [kind : {"unread", "none", "gmail"}, history : 0..MaxHistory]
Unread == [kind |-> "unread", history |-> 0]
NoEtag == [kind |-> "none", history |-> 0]

(* Only Gmail keeps a marker that serves as an etag; those of the other     *)
(* providers are declared and compared but never produced.                  *)
EtagOf(a) ==
    IF ProviderOf[a] = "gmail" /\ marker[a] # 0
    THEN [kind |-> "gmail", history |-> marker[a]]
    ELSE NoEtag

Drift(base, live) ==
    CASE base = live -> "clean"
      [] base # live /\ base.kind = "none" -> "soft"
      [] base # live /\ base.kind = "gmail" /\ live.kind = "gmail" -> "soft"
      [] OTHER -> "hard"

-----------------------------------------------------------------------------
(* Risk. *)

IsDelete(action) == action \in {"delete", "deletePermanent"}

BaseRisk(action, method, provider) ==
    CASE action = "deletePermanent" -> "high"
      [] action = "unsubscribe" ->
            (CASE method = "webLink" -> "high"
               [] method = "mailto" -> "medium"
               [] OTHER -> "low")
      [] action \notin {"deletePermanent", "unsubscribe"} /\ provider = "pop3" -> "high"
      [] action = "archive" /\ provider = "imap" -> "medium"
      [] OTHER -> "low"

Classify(action, method, account, groupSize) ==
    IF groupSize > BulkLimit THEN "high"
    ELSE BaseRisk(action, method, ProviderOf[account])

(* What the cleaner makes of the first action of a rule. *)
PlanActionFromRule(action) ==
    CASE action \in {"addLabel", "removeLabel"} -> "addLabel"
      [] action \in {"archive", "forward", "none"} -> "archive"
      [] action = "markImportant" -> "star"
      [] OTHER -> action

(* The places, out of n matches in date order, of the messages shown as a   *)
(* sample: five from each end and the others evenly between.                *)
Sample(n, cap) ==
    LET Least(x, y) == IF x < y THEN x ELSE y
        head == Least(5, cap)
        tail == Least(5, cap - head)
        middle == cap - head - tail
        between == IF n > head + tail
                   THEN {head + ((k * (n - tail - head)) \div middle) : k \in 0..middle - 1}
                   ELSE {}
    IN  IF n <= cap THEN 0..n - 1
        ELSE 0..head - 1 \cup between \cup n - tail..n - 1

-----------------------------------------------------------------------------
(* The lookups of one build, in their order. *)

Lookup(kind, account, of, action) ==
    [kind |-> kind, account |-> account, of |-> of, action |-> action]

(* The rules chosen for each account, grouped; a rule chosen twice counts once. *)
RuleGroups(rules) ==
    LET chosen(a) == {rules[i].rule : i \in {j \in DOMAIN rules : rules[j].account = a}}
    IN  [i \in 1..Cardinality({r.account : r \in Range(rules)}) |->
            LET a == SetToSeq({r.account : r \in Range(rules)})[i]
            IN  Lookup("rules", a, chosen(a), "")]

\* Mutant: the etags are read when the rows have been.
EtagsLast(sel) ==
    LET each(kind) == [i \in DOMAIN sel.accounts |-> Lookup(kind, sel.accounts[i], {}, "")]
    IN  [i \in DOMAIN sel.subs |-> Lookup("sub", sel.subs[i], {}, "unsubscribe")]
        \o [i \in DOMAIN sel.clusters |->
              Lookup("cluster", sel.clusters[i].account, {sel.clusters[i].cluster},
                     sel.clusters[i].action)]
        \o RuleGroups(sel.rules)
        \o (IF sel.archive THEN each("count") ELSE <<>>) \o each("etag")

LookupsOf(sel) ==
    LET each(kind) == [i \in DOMAIN sel.accounts |-> Lookup(kind, sel.accounts[i], {}, "")]
    IN  each("etag")
        \o [i \in DOMAIN sel.subs |-> Lookup("sub", sel.subs[i], {}, "unsubscribe")]
        \o [i \in DOMAIN sel.clusters |->
              Lookup("cluster", sel.clusters[i].account, {sel.clusters[i].cluster},
                     sel.clusters[i].action)]
        \o RuleGroups(sel.rules)
        \o IF sel.archive THEN each("count") ELSE <<>>

Doing(kind) == phase = "building" /\ todo # <<>> /\ Head(todo).kind = kind

Operation(kind, account, mail, action, source, count, risk) ==
    [kind |-> kind, account |-> account, mail |-> mail, action |-> action,
     source |-> source, count |-> count, risk |-> risk]

BuildPlan ==
    /\ phase = "idle"
    /\ phase' = "building"
    /\ \E sel \in Selections : todo' = LookupsOf(sel)
    /\ baseline' = [a \in PlanAccounts |-> Unread]
    /\ operations' = <<>>
    /\ unmarked' = {}
    /\ UNCHANGED worldVars

ReadEtag ==
    /\ Doing("etag")
    /\ LET a == Head(todo).account IN
        /\ baseline' = [baseline EXCEPT ![a] = EtagOf(a)]
        /\ unmarked' = unmarked \ {a}
    /\ todo' = Tail(todo)
    /\ UNCHANGED <<worldVars, phase, operations>>

Adds(rows) ==
    /\ operations' = operations \o rows
    /\ todo' = Tail(todo)
    /\ UNCHANGED <<worldVars, phase, baseline, unmarked>>

(* One row for a sender, under the method its newest mail offers. *)
FindSubscription ==
    /\ Doing("sub")
    /\ LET a == Head(todo).account IN
        \E method \in {"none", "mailto", "webLink", "listUnsubscribePost"} :
            Adds(<<Operation("row", a, NoMail, "unsubscribe", "subscription", 1,
                             Classify("unsubscribe", method, a, 0))>>)

PlannedFor(m) == \E i \in DOMAIN operations : operations[i].mail = m

(* One row for each message of the cluster that has a row and belongs to    *)
(* the account, unless an earlier selection took it.  The size of the group *)
(* counts the messages of every account.                                    *)
ResolveCluster ==
    /\ Doing("cluster")
    /\ LET t == Head(todo)
           found == inStore \cap UNION {members[c] : c \in t.of}
           taken == {m \in found \cap MailsOf[t.account] : ~PlannedFor(m)}
           risk == Classify(t.action, "none", t.account, Cardinality(found))
           new == SetToSeq(taken)
       IN  Adds([i \in DOMAIN new |->
                    Operation("row", t.account, new[i], t.action, "cluster", 1, risk)])

\* What the conditions of a rule may let through.
Matches(a) == SUBSET RowsOf(a)

Evaluations(a, chosen) == UNION {[enabled -> Matches(a)] : enabled \in SUBSET chosen}

(* A predicate for each rule of the group that is enabled, counting matches. *)
EvaluateRules ==
    /\ Doing("rules")
    /\ LET t == Head(todo) IN
        \E matches \in Evaluations(t.account, t.of) :
            LET order == SetToSeq(DOMAIN matches)
                shown(r) == PlanActionFromRule(RuleFirst[r])
            IN  Adds([i \in DOMAIN order |->
                    LET n == Cardinality(matches[order[i]]) IN
                    Operation("pred", t.account, NoMail, shown(order[i]), "rule", n,
                              Classify(shown(order[i]), "none", t.account, n))])

CountForArchive ==
    /\ Doing("count")
    /\ LET a == Head(todo).account
           n == Cardinality(RowsOf(a))
       IN  Adds(<<Operation("pred", a, NoMail, "archive", "archiveStrategy", n,
                            Classify("archive", "none", a, n))>>)

(* A lookup or the transaction fails: nothing of the plan is kept. *)
BuildFails ==
    /\ phase = "building"
    /\ phase' = "idle" /\ todo' = <<>> /\ operations' = <<>>
    /\ baseline' = [a \in PlanAccounts |-> Unread]
    /\ unmarked' = {}
    /\ UNCHANGED worldVars

SavePlan ==
    /\ phase = "building" /\ todo = <<>>
    /\ phase' = "saved"
    /\ UNCHANGED <<worldVars, todo, baseline, operations, unmarked>>

-----------------------------------------------------------------------------
(* What goes on meanwhile. *)

\* For the property: the account changes, after its etag was read, in a way
\* its marker does not show.
Unmarks(a) ==
    unmarked' = IF baseline[a] = Unread THEN unmarked ELSE unmarked \cup {a}

RemoteMoves(a) ==
    /\ remoteHistory[a] < MaxHistory
    /\ remoteHistory' = [remoteHistory EXCEPT ![a] = @ + 1]
    /\ \E m \in MailsOf[a] :
          pending' = [pending EXCEPT ![a] = @ \cup {[mail |-> m, at |-> remoteHistory'[a]]}]
    /\ UNCHANGED <<inStore, marker, syncing, upTo, members, syncs, regroups, localChanges,
                   draftVars, unmarked>>

BeginSync(a) ==
    /\ syncing[a] = "no" /\ syncs[a] < MaxSyncs[a]
    /\ syncs' = [syncs EXCEPT ![a] = @ + 1]
    /\ syncing' = [syncing EXCEPT ![a] = IF marker[a] = 0 THEN "full" ELSE "delta"]
    /\ upTo' = [upTo EXCEPT ![a] = remoteHistory[a]]
    /\ UNCHANGED <<inStore, remoteHistory, pending, marker, members, regroups, localChanges,
                   draftVars, unmarked>>

(* The history has expired: the marker is cleared and the sync is a full one. *)
ClearMarker(a) ==
    /\ syncing[a] = "delta"
    /\ syncing' = [syncing EXCEPT ![a] = "full"]
    /\ marker' = [marker EXCEPT ![a] = 0]
    /\ upTo' = [upTo EXCEPT ![a] = 0]
    /\ UNCHANGED <<inStore, remoteHistory, pending, members, syncs, regroups, localChanges,
                   draftVars, unmarked>>

(* A row is written or removed.  A full sync may bring back what the marker  *)
(* never covered, and end at the number it was cleared at.                   *)
SyncRow(a) ==
    /\ syncing[a] # "no"
    /\ \E m \in MailsOf[a] :
        /\ syncing[a] = "delta" => \E p \in pending[a] : p.mail = m /\ p.at <= upTo[a]
        /\ inStore' = IF m \in inStore THEN inStore \ {m} ELSE inStore \cup {m}
    /\ IF syncing[a] = "full" THEN Unmarks(a) ELSE UNCHANGED unmarked
    /\ UNCHANGED <<remoteHistory, pending, marker, syncing, upTo, members, syncs, regroups,
                   localChanges, draftVars>>

(* A delta stores the number it listed up to, a full sync the present one. *)
EndSync(a) ==
    /\ syncing[a] # "no"
    /\ LET now == IF syncing[a] = "full" THEN remoteHistory[a] ELSE upTo[a] IN
        /\ marker' = [marker EXCEPT ![a] = now]
        /\ pending' = [pending EXCEPT ![a] = {p \in @ : p.at > now}]
    /\ syncing' = [syncing EXCEPT ![a] = "no"] /\ upTo' = [upTo EXCEPT ![a] = 0]
    /\ UNCHANGED <<inStore, remoteHistory, members, syncs, regroups, localChanges,
                   draftVars, unmarked>>

(* The timeout of the request drops the sync: its rows stay, the marker too. *)
SyncDropped(a) ==
    /\ syncing[a] # "no"
    /\ syncing' = [syncing EXCEPT ![a] = "no"] /\ upTo' = [upTo EXCEPT ![a] = 0]
    /\ Unmarks(a)
    /\ UNCHANGED <<inStore, remoteHistory, pending, marker, members, syncs, regroups,
                   localChanges, draftVars>>

DeletedLocally(m) ==
    /\ regroups + localChanges < MaxLocal /\ m \in inStore
    /\ inStore' = inStore \ {m}
    /\ localChanges' = localChanges + 1
    /\ Unmarks(OwnerOf(m))
    /\ UNCHANGED <<remoteHistory, pending, marker, syncing, upTo, members, syncs, regroups, draftVars>>

(* A message is in one cluster at a time, but may change it. *)
Regroup ==
    /\ regroups + localChanges < MaxLocal
    /\ regroups' = regroups + 1
    /\ \E m \in AllMails, to \in PlanClusters :
        members' = [c \in PlanClusters |->
                        IF c = to THEN members[c] \cup {m} ELSE members[c] \ {m}]
    /\ UNCHANGED <<inStore, remoteHistory, pending, marker, syncing, upTo, syncs, localChanges,
                   draftVars, unmarked>>

PlanInit ==
    /\ inStore = AllMails
    /\ remoteHistory = [a \in PlanAccounts |-> 1]
    /\ pending = [a \in PlanAccounts |-> {}]
    /\ marker = [a \in PlanAccounts |-> 1]
    /\ syncing = [a \in PlanAccounts |-> "no"]
    /\ upTo = [a \in PlanAccounts |-> 0]
    /\ members = [c \in PlanClusters |->
                    IF c = CHOOSE d \in PlanClusters : TRUE THEN AllMails ELSE {}]
    /\ phase = "idle" /\ todo = <<>> /\ operations = <<>>
    /\ baseline = [a \in PlanAccounts |-> Unread]
    /\ syncs = [a \in PlanAccounts |-> 0] /\ regroups = 0 /\ localChanges = 0 /\ unmarked = {}

PlanNext ==
    \/ BuildPlan \/ ReadEtag \/ FindSubscription \/ ResolveCluster
    \/ EvaluateRules \/ CountForArchive \/ BuildFails \/ SavePlan
    \/ \E a \in PlanAccounts :
          RemoteMoves(a) \/ BeginSync(a) \/ ClearMarker(a) \/ SyncRow(a) \/ EndSync(a)
          \/ SyncDropped(a)
    \/ \E m \in AllMails : DeletedLocally(m)
    \/ Regroup

PlanSpec == PlanInit /\ [][PlanNext]_planVars

-----------------------------------------------------------------------------
(* A message that changes cluster between two lookups of a build is planned *)
(* for once (builder.rs, the dedup map).                                    *)
OneRowPerMail ==
    \A i, j \in DOMAIN operations :
        (operations[i].mail = operations[j].mail /\ operations[i].mail # NoMail) => i = j

(* What cannot be undone is shown as high risk, from whatever selection it  *)
(* comes: a permanent deletion, any deletion on POP3, more than BulkLimit.  *)
IrreversibleIsHigh ==
    \A i \in DOMAIN operations :
        LET o == operations[i] IN
        (\/ o.action = "deletePermanent"
         \/ IsDelete(o.action) /\ ProviderOf[o.account] = "pop3"
         \/ o.count > BulkLimit) => o.risk = "high"

(* What the drift gate is for: when a plan drifts not at all against the    *)
(* Gmail baseline of an account, no sync is under way there and its rows    *)
(* did not change unmarked, the messages planned for still have a row and   *)
(* an archive predicate would expand into as many rows as the user was      *)
(* shown.  It takes the etags being read before the rows.                   *)
CleanPlanIsCurrent ==
    phase = "saved" =>
        \A a \in PlanAccounts :
            (/\ baseline[a].kind = "gmail" /\ Drift(baseline[a], EtagOf(a)) = "clean"
             /\ syncing[a] = "no" /\ a \notin unmarked)
            => \A i \in DOMAIN operations :
                  operations[i].account = a =>
                    /\ operations[i].mail \in RowsOf(a) \cup {NoMail}
                    /\ operations[i].source = "archiveStrategy"
                        => operations[i].count = Cardinality(RowsOf(a))

(* The sample shown with a rule has as many messages as fit, from both ends *)
(* of the matches (rule_processor.rs, which the plan hash relies on).       *)
SamplesFill ==
    \A n \in 0..40, cap \in 1..20 :
        LET s == Sample(n, cap) IN
        /\ s \subseteq 0..n - 1
        /\ Cardinality(s) = IF n < cap THEN n ELSE cap
        /\ n > 0 => 0 \in s
        /\ (n > 0 /\ cap > 5) => n - 1 \in s

(* Dedup, risk, samples and baselines of a plan hold together. *)
PlanInv ==
    /\ \A a \in PlanAccounts : baseline[a] \in Etags
    /\ OneRowPerMail /\ IrreversibleIsHigh /\ CleanPlanIsCurrent /\ SamplesFill
=============================================================================
