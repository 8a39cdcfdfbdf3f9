--------------------------- MODULE MailboxActions ---------------------------
(***************************************************************************)
(* The mailbox requests of api/emails.rs: archive, star, read, delete (soft *)
(* and permanent), spam, restore, empty trash, and the move to a folder or  *)
(* a label.  Each asks the provider first, in most of them without minding  *)
(* a failure, and then updates the row of the email, with no transaction    *)
(* around the steps.  The provider is Gmail, by its label requests.  Beside *)
(* them the rules of rules/executor.rs act on the same rows, and on the     *)
(* rows only, for each email a sync has stored.                             *)
(***************************************************************************)
EXTENDS Naturals, FiniteSets, FiniteSetsExt

CONSTANTS Emails,            \* emails of the instance
          Clients,           \* concurrent requests
          FolderTargets,     \* targets of a move to a folder, as list_folders offers them
          LabelTargets,      \* targets of a move to a label, labels of the rules
          RuleOps,           \* actions of the rules of the instance
          HeldMail,        \* emails a backup or a search click refers to
          MaxActions,        \* bound: requests begun
          MaxProviderFaults  \* bound: provider calls that fail

ASSUME MailboxAssumption ==
    /\ RuleOps \subseteq {"rule archive", "rule read", "rule star", "rule delete",
                     "rule purge", "rule add", "rule remove"}
    /\ FolderTargets \subseteq {"INBOX", "SENT", "TRASH", "SPAM", "DRAFT", "IMPORTANT"}
    /\ HeldMail \subseteq Emails /\ MaxActions \in Nat /\ MaxProviderFaults \in Nat
    /\ LabelTargets \cap {"INBOX", "TRASH", "SPAM", "STARRED", "UNREAD", "ARCHIVED"} = {}

VARIABLES letters,   \* the row of each email, or NoLetter
          gmail,     \* its labels at the provider
          files,     \* emails whose attachment files are on disk
          actions,   \* what each client's request is doing
          begun, providerFaults,
          trace      \* history: what was promised, and which emails met a race

mailboxVars == <<letters, gmail, files, actions, begun, providerFaults, trace>>

NoLetter == [folder |-> "none"]
GoneAtGmail == {"gone"}
Flags == {"STARRED", "UNREAD"}
Labels == {"INBOX", "ARCHIVED"} \cup FolderTargets \cup LabelTargets

\* update_email_state's columns follow one folder, deleted_at apart.
WithState(row, folder, dated) ==
    [row EXCEPT !.trash = folder = "TRASH", !.spam = folder = "SPAM",
                !.folder = folder, !.dated = dated]

Special == <<"TRASH", "SPAM", "SENT", "DRAFT">>

\* The first special label wins.
DerivedFolder(labels) ==
    LET found == {i \in DOMAIN Special : Special[i] \in labels}
    IN  IF found = {} THEN "INBOX" ELSE Special[Min(found)]

Soft == {"trash", "spam", "unspam", "restore"}
Destination(op) ==
    CASE op = "trash" -> "TRASH" [] op = "spam" -> "SPAM" [] op \in {"unspam", "restore"} -> "INBOX"

Idle == [op |-> "none", step |-> "none", email |-> "none", target |-> "none",
         seen |-> {}, listed |-> {}]

MailboxInit ==
    /\ letters = [e \in Emails |->
          [labels |-> {"INBOX"}, folder |-> "INBOX", trash |-> FALSE, spam |-> FALSE,
           dated |-> FALSE, flags |-> {"UNREAD"}, archived |-> FALSE]]
    /\ gmail = [e \in Emails |-> {"INBOX", "UNREAD"}]
    /\ files = Emails
    /\ actions = [c \in Clients |-> Idle]
    /\ begun = 0 /\ providerFaults = 0
    /\ trace = [owed |-> [e \in Emails |-> {}], starred |-> {}, raced |-> {},
                failed |-> {}, crossed |-> {}, refused |-> {}, ruled |-> {}]

InDb(e) == letters[e] # NoLetter
Sweeping(c) == actions[c].op = "empty" /\ actions[c].step \in {"sweep", "delete"}

\* History: e changes sides while a request that empties the trash has already
\* listed what it removes.
CrossesSweep(e, row) ==
    IF \E c \in Clients : Sweeping(c) /\ (e \in actions[c].listed) # row.trash THEN {e} ELSE {}

\* Another request op is at the same email, past what it computes from.
Rival(c, op, steps) ==
    \E d \in Clients \ {c} :
        actions[d].op = op /\ actions[d].email = actions[c].email /\ actions[d].step \in steps

At(c, ops, step) == actions[c].op \in ops /\ actions[c].step = step
Goto(c, step) == actions' = [actions EXCEPT ![c].step = step]
Finish(c) == actions' = [actions EXCEPT ![c] = Idle]

\* UPDATE emails: of an email that is gone it changes nothing.
Write(e, row, history) ==
    IF InDb(e)
    THEN /\ letters' = [letters EXCEPT ![e] = row]
         /\ trace' = [history EXCEPT !.crossed = @ \cup CrossesSweep(e, row)]
    ELSE UNCHANGED <<letters, trace>>

Begin(c, op, e, target) ==
    /\ actions[c] = Idle /\ begun < MaxActions
    /\ begun' = begun + 1
    /\ actions' = [actions EXCEPT ![c] =
          [Idle EXCEPT !.op = op, !.email = e, !.target = target,
             !.step = CASE op = "star" -> "read" [] op = "empty" -> "list"
                            [] op \in {"rule add", "rule remove"} -> "read"
                            [] op \in RuleOps \ {"rule add", "rule remove"} -> "write"
                            [] OTHER -> "call"]]
    /\ UNCHANGED <<letters, gmail, files, providerFaults, trace>>

BeginMove ==
    \E c \in Clients, e \in Emails :
        \/ \E t \in FolderTargets : Begin(c, "folder", e, t)
        \/ \E t \in LabelTargets : Begin(c, "label", e, t)

BeginOther ==
    \E c \in Clients, e \in Emails :
        \/ \E op \in Soft \cup {"archive", "star", "hard"} : Begin(c, op, e, "none")
        \/ \E t \in {"read", "unread"} : Begin(c, "mark", e, t)

\* A rule that matches an email its sync has stored; rules call no provider.
BeginRule ==
    \E c \in Clients, e \in Emails, op \in RuleOps :
        \E t \in IF op \in {"rule add", "rule remove"} THEN LabelTargets ELSE {"none"} :
            Begin(c, op, e, t)

BeginEmpty == \E c \in Clients : Begin(c, "empty", "none", "none")

\* star_email reads the flag it is going to negate.
ReadStar(c) ==
    /\ At(c, {"star"}, "read")
    /\ IF InDb(actions[c].email)
       THEN actions' = [actions EXCEPT ![c].step = "call",
                            ![c].seen = letters[actions[c].email].flags \cap {"STARRED"}]
       ELSE Finish(c)
    /\ UNCHANGED <<letters, gmail, files, begun, providerFaults, trace>>

Flip(flags, flag, on) == IF on THEN flags \cup {flag} ELSE flags \ {flag}

\* What the request does to the labels at Gmail.  A move to a folder adds the
\* target and removes INBOX in one request; nothing removes TRASH or SPAM.
AtGmail(a, labels) ==
    CASE a.op = "archive" -> labels \ {"INBOX"}
      [] a.op = "star"    -> Flip(labels, "STARRED", a.seen = {})
      [] a.op = "mark"    -> Flip(labels, "UNREAD", a.target = "unread")
      [] a.op \in Soft    -> (labels \ {"INBOX"}) \cup {Destination(a.op)}
      [] a.op = "folder"  -> (labels \ {"INBOX"}) \cup {a.target}
      [] a.op = "label"   -> labels \cup {a.target}
      [] a.op = "hard"    -> GoneAtGmail

\* After the call: the labels are read, the files removed, or the row written.
AfterCall(op) == CASE op = "label" -> "read" [] op = "hard" -> "files" [] OTHER -> "write"

\* The account is looked up by the row, except by a move, whose body names it.
CallProvider(c) ==
    LET a == actions[c]
    IN  /\ a.step = "call"
        /\ InDb(a.email) \/ a.op \in {"folder", "label"}
        /\ gmail[a.email] # GoneAtGmail
        /\ gmail' = [gmail EXCEPT ![a.email] = AtGmail(a, @)]
        /\ Goto(c, AfterCall(a.op))
        /\ UNCHANGED <<letters, files, begun, providerFaults, trace>>

\* A failure ends a move; every other request continues locally.
CallFails(c) ==
    LET a == actions[c]
        missing == gmail[a.email] = GoneAtGmail \/ (~InDb(a.email) /\ a.op \notin {"folder", "label"})
    IN  /\ a.step = "call"
        /\ missing \/ providerFaults < MaxProviderFaults
        /\ providerFaults' = IF missing THEN providerFaults ELSE providerFaults + 1
        /\ trace' = [trace EXCEPT !.failed = @ \cup {a.email}]
        /\ IF a.op \in {"folder", "label"} THEN Finish(c) ELSE Goto(c, AfterCall(a.op))
        /\ UNCHANGED <<letters, gmail, files, begun>>

WriteArchive(c) ==
    LET e == actions[c].email
    IN  /\ At(c, {"archive"}, "write")
        /\ Write(e, [letters[e] EXCEPT !.labels = {"ARCHIVED"}, !.archived = TRUE],
                 [trace EXCEPT !.owed[e] = {}])
        /\ Finish(c)
        /\ UNCHANGED <<gmail, files, begun, providerFaults>>

WriteStar(c) ==
    LET e == actions[c].email
    IN  /\ At(c, {"star"}, "write")
        /\ Write(e, [letters[e] EXCEPT !.flags = Flip(@, "STARRED", actions[c].seen = {})],
                 [trace EXCEPT !.starred = Flip(@, e, e \notin @),
                               !.raced = @ \cup (IF Rival(c, "star", {"call", "write"}) THEN {e} ELSE {})])
        /\ Finish(c)
        /\ UNCHANGED <<gmail, files, begun, providerFaults>>

WriteRead(c) ==
    LET e == actions[c].email
    IN  /\ At(c, {"mark"}, "write")
        /\ Write(e, [letters[e] EXCEPT !.flags = Flip(@, "UNREAD", actions[c].target = "unread")],
                 [trace EXCEPT !.raced = @ \cup (IF Rival(c, "mark", {"write"}) THEN {e} ELSE {})])
        /\ Finish(c)
        /\ UNCHANGED <<gmail, files, begun, providerFaults>>

\* trash, spam, unspam and restore.
WriteSoft(c) ==
    LET a == actions[c]
    IN  /\ At(c, Soft, "write")
        /\ Write(a.email, WithState(letters[a.email], Destination(a.op), a.op = "trash"), trace)
        /\ Finish(c)
        /\ UNCHANGED <<gmail, files, begun, providerFaults>>

\* The match on the target's name knows the special folders; the rest is INBOX.
WriteFolderState(c) ==
    LET e == actions[c].email
    IN  /\ At(c, {"folder"}, "write")
        /\ Write(e, WithState(letters[e], DerivedFolder({actions[c].target}), FALSE), trace)
        /\ Goto(c, "labels")
        /\ UNCHANGED <<gmail, files, begun, providerFaults>>

WriteFolderLabels(c) ==
    LET e == actions[c].email
        t == actions[c].target
    IN  /\ At(c, {"folder"}, "labels")
        /\ Write(e, [letters[e] EXCEPT !.labels = {t}], [trace EXCEPT !.owed[e] = {t}])
        /\ Finish(c)
        /\ UNCHANGED <<gmail, files, begun, providerFaults>>

\* The label is appended by a read and a write, and the state derived from them.
ReadLabels(c) ==
    /\ At(c, {"label"}, "read")
    /\ IF InDb(actions[c].email)
       THEN actions' = [actions EXCEPT ![c].step = "labels",
                                       ![c].seen = letters[actions[c].email].labels]
       ELSE Finish(c)
    /\ UNCHANGED <<letters, gmail, files, begun, providerFaults, trace>>

\* Mutant: the label takes the place of the others.
AppendedOnly(seen, label) == {label}

Appended(seen, label) == seen \cup {label}

WriteLabels(c) ==
    LET a == actions[c]
        e == a.email
    IN  /\ At(c, {"label"}, "labels")
        /\ Write(e, [letters[e] EXCEPT !.labels = Appended(a.seen, a.target)],
                 [trace EXCEPT !.owed[e] = @ \cup {a.target},
                               !.raced = @ \cup (IF letters[e].labels = a.seen THEN {} ELSE {e})])
        /\ Goto(c, "state")
        /\ UNCHANGED <<gmail, files, begun, providerFaults>>

WriteDerived(c) ==
    LET a == actions[c]
        e == a.email
    IN  /\ At(c, {"label"}, "state")
        /\ Write(e, WithState(letters[e], DerivedFolder(Appended(a.seen, a.target)), FALSE), trace)
        /\ Finish(c)
        /\ UNCHANGED <<gmail, files, begun, providerFaults>>

\* apply_rule_action writes its own columns, not those of update_email_state.
RuleRow(op, row) ==
    CASE op = "rule archive" -> [row EXCEPT !.folder = "ARCHIVE"]
      [] op = "rule read"    -> [row EXCEPT !.flags = @ \ {"UNREAD"}]
      [] op = "rule star"    -> [row EXCEPT !.flags = @ \cup {"STARRED"}]
      [] op = "rule delete"  -> [row EXCEPT !.trash = TRUE, !.dated = TRUE, !.folder = "TRASH"]

WriteRule(c) ==
    LET a == actions[c]
        e == a.email
    IN  /\ At(c, RuleOps \ {"rule purge"}, "write")
        /\ Write(e, RuleRow(a.op, letters[e]),
                 [trace EXCEPT !.ruled = @ \cup {e},
                    !.starred = IF a.op = "rule star" THEN @ \cup {e} ELSE @,
                    !.raced = IF a.op = "rule star" /\ Rival(c, "star", {"call", "write"})
                              THEN @ \cup {e} ELSE @])
        /\ Finish(c)
        /\ UNCHANGED <<gmail, files, begun, providerFaults>>

\* A label that is there already is not added again.
ReadRuleLabels(c) ==
    LET a == actions[c]
        e == a.email
    IN  /\ At(c, {"rule add", "rule remove"}, "read")
        /\ IF InDb(e) /\ (a.op = "rule add" => a.target \notin letters[e].labels)
           THEN actions' = [actions EXCEPT ![c].step = "labels", ![c].seen = letters[e].labels]
           ELSE Finish(c)
        /\ UNCHANGED <<letters, gmail, files, begun, providerFaults, trace>>

WriteRuleLabels(c) ==
    LET a == actions[c]
        e == a.email
        New(labels) == Flip(labels, a.target, a.op = "rule add")
    IN  /\ At(c, {"rule add", "rule remove"}, "labels")
        /\ Write(e, [letters[e] EXCEPT !.labels = New(a.seen)],
                 [trace EXCEPT !.owed[e] = New(@),
                               !.raced = @ \cup (IF letters[e].labels = a.seen THEN {} ELSE {e})])
        /\ Finish(c)
        /\ UNCHANGED <<gmail, files, begun, providerFaults>>

\* The attachment files go before the row.
RemoveFiles(c) ==
    /\ At(c, {"hard"}, "files")
    /\ files' = files \ (IF InDb(actions[c].email) THEN {actions[c].email} ELSE {})
    /\ Goto(c, "delete")
    /\ UNCHANGED <<letters, gmail, begun, providerFaults, trace>>

\* DELETE FROM emails: one email that is referred to refuses the statement.
Delete(doomed, removed) ==
    IF doomed \cap HeldMail = {}
    THEN /\ letters' = [e \in Emails |-> IF e \in doomed THEN NoLetter ELSE letters[e]]
         /\ UNCHANGED trace
    ELSE /\ trace' = [trace EXCEPT !.refused = @ \cup removed]
         /\ UNCHANGED letters

DeleteRow(c) ==
    LET e == actions[c].email
    IN  /\ At(c, {"hard"}, "delete")
        /\ Delete({e} \cap {d \in Emails : InDb(d)}, {e})
        /\ Finish(c)
        /\ UNCHANGED <<gmail, files, begun, providerFaults>>

\* The rule that deletes for good leaves the files.
PurgeRow(c) ==
    LET e == actions[c].email
    IN  /\ At(c, {"rule purge"}, "write")
        /\ IF {e} \cap HeldMail = {}
           THEN /\ letters' = [letters EXCEPT ![e] = NoLetter]
                /\ trace' = [trace EXCEPT !.ruled = @ \cup {e}]
           ELSE UNCHANGED <<letters, trace>>
        /\ Finish(c)
        /\ UNCHANGED <<gmail, files, begun, providerFaults>>

Trash == {e \in Emails : InDb(e) /\ letters[e].trash}

ListTrash(c) ==
    /\ At(c, {"empty"}, "list")
    /\ actions' = [actions EXCEPT ![c].step = "sweep", ![c].listed = Trash, ![c].seen = Trash]
    /\ UNCHANGED <<letters, gmail, files, begun, providerFaults, trace>>

\* The files of each listed email, one after the other.
Sweep(c) ==
    /\ At(c, {"empty"}, "sweep")
    /\ IF actions[c].seen = {}
       THEN Goto(c, "delete") /\ UNCHANGED files
       ELSE \E e \in actions[c].seen :
               /\ files' = files \ (IF InDb(e) THEN {e} ELSE {})
               /\ actions' = [actions EXCEPT ![c].seen = @ \ {e}]
    /\ UNCHANGED <<letters, gmail, begun, providerFaults, trace>>

\* What is in the trash by now is deleted, not what was listed.
DeleteTrash(c) ==
    /\ At(c, {"empty"}, "delete")
    /\ Delete(Trash, actions[c].listed)
    /\ Finish(c)
    /\ UNCHANGED <<gmail, files, begun, providerFaults>>

ActionStep(c) ==
    \/ ReadStar(c) \/ CallProvider(c) \/ CallFails(c)
    \/ WriteArchive(c) \/ WriteStar(c) \/ WriteRead(c) \/ WriteSoft(c)
    \/ WriteFolderState(c) \/ WriteFolderLabels(c)
    \/ ReadLabels(c) \/ WriteLabels(c) \/ WriteDerived(c)
    \/ WriteRule(c) \/ ReadRuleLabels(c) \/ WriteRuleLabels(c) \/ PurgeRow(c)
    \/ RemoveFiles(c) \/ DeleteRow(c)
    \/ ListTrash(c) \/ Sweep(c) \/ DeleteTrash(c)

MailboxNext == BeginMove \/ BeginOther \/ BeginRule \/ BeginEmpty \/ \E c \in Clients : ActionStep(c)

MailboxSpec == MailboxInit /\ [][MailboxNext]_mailboxVars

MailboxTypeOK ==
    /\ \A e \in Emails : InDb(e) =>
          /\ letters[e].labels \subseteq Labels /\ letters[e].flags \subseteq Flags
          /\ ~(letters[e].trash /\ letters[e].spam) \/ e \in trace.ruled
    /\ files \subseteq Emails /\ begun \in 0..MaxActions
    /\ providerFaults \in 0..MaxProviderFaults

\* Attachment files go with their email: an email that is still there has lost
\* its files only to a request that is about to delete it, to a delete the
\* database refused, or to a restore while the trash was emptied; an email that
\* is gone leaves files only if it was trashed while the trash was emptied, or if
\* a rule deleted it.
FilesFollowMail ==
    \A e \in Emails :
        /\ InDb(e) /\ e \notin files =>
              \/ e \in trace.refused \cup trace.crossed
              \/ \E c \in Clients : \/ At(c, {"hard"}, "delete") /\ actions[c].email = e
                                    \/ Sweeping(c) /\ e \in actions[c].listed \ actions[c].seen
        /\ ~InDb(e) /\ e \in files => e \in trace.crossed \cup trace.ruled

\* A label the user added stays until a move or the archive replaces the labels,
\* and two toggles of the star undo each other, unless a request wrote what it
\* had computed from an older row.
NothingOverwritten ==
    \A e \in Emails \ trace.raced : InDb(e) =>
        /\ trace.owed[e] \subseteq letters[e].labels
        /\ "STARRED" \in letters[e].flags <=> e \in trace.starred

\* The columns that say where an email is agree: what is in the folder TRASH or
\* SPAM has the flag, and nothing else, unless a rule wrote some of them.
StateFollowsFolder ==
    \A e \in Emails \ trace.ruled : InDb(e) =>
        /\ letters[e].trash <=> letters[e].folder = "TRASH"
        /\ letters[e].spam <=> letters[e].folder = "SPAM"
        /\ letters[e].dated => letters[e].trash

\* Without a failure, and without rules, the provider is told before the row says
\* so: mail in the trash is in the trash there, and between requests the flags
\* agree.
ProviderIsTold ==
    \A e \in Emails \ (trace.failed \cup trace.ruled) : InDb(e) /\ gmail[e] # GoneAtGmail =>
        /\ letters[e].trash => "TRASH" \in gmail[e]
        /\ (\A c \in Clients : actions[c].email # e) /\ e \notin trace.raced =>
               gmail[e] \cap Flags = letters[e].flags

\* The requests on one mailbox, whatever their interleaving.
MailboxInv ==
    MailboxTypeOK /\ FilesFollowMail /\ NothingOverwritten /\ StateFollowsFolder /\ ProviderIsTold
=============================================================================
