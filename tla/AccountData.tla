---------------------------- MODULE AccountData -----------------------------
(***************************************************************************)
(* What the system keeps of an account and how it is removed: the mail     *)
(* rows, the vectors in the store, their copies in vector_backups and the  *)
(* clicks of search_interactions, under the disconnection of               *)
(* api/accounts.rs, the wipes of vectors/remote_wipe.rs, the backup and    *)
(* restore of vectors/backup.rs, and a sync that adds mail meanwhile.      *)
(*                                                                         *)
(* An account has one message. A row of vector_backups or a click refers   *)
(* to the mail row, and the database refuses what would leave it dangling. *)
(* The disconnection swallows the errors of its statements and of the      *)
(* store, and its request may be dropped at any await: the history         *)
(* leftover names the accounts whose vectors stay for that.                *)
(***************************************************************************)
EXTENDS Integers

CONSTANTS
    DataAccounts,
    MaxCrashes      \* bound

ASSUME DataAssumption == MaxCrashes \in Nat

VARIABLES
    status,     \* connected_accounts.status
    mail,       \* accounts with mail rows
    vectors,    \* accounts with vectors in the store
    backups,    \* accounts with rows of vector_backups
    clicks,     \* accounts with mail a row of search_interactions refers to
    leaving,    \* the disconnection of each account: its step and the vectors it has collected
    cleanup,    \* accounts whose collected vectors are deleted in the background
    adding,     \* the sync of each account: its step
    wipe,       \* the wipe under way: its step and its account
    copying,    \* a backup under way: the accounts it has listed
    restoring,  \* a restore under way: the accounts it has read
    survivors,  \* history: accounts whose mail is older than the latest wipe of everything
    refused,    \* history: accounts whose mail rows the database did not delete
    leftover,   \* history: accounts whose vectors an error or the end of a request left behind
    crossed,    \* history: accounts whose removal a sync or a restore crossed, or whose vectors
                \* a wipe left behind
    crashes

tables == <<status, mail, vectors, backups, clicks>>
history == <<survivors, refused, leftover, crossed>>
dataVars == <<tables, leaving, cleanup, adding, wipe, copying, restoring, history, crashes>>

-----------------------------------------------------------------------------
Staying == [step |-> "none", collected |-> FALSE]

NoWipe == [step |-> "none", of |-> "none"]

DataInit ==
    /\ status = [a \in DataAccounts |-> "connected"]
    /\ mail = {} /\ vectors = {} /\ backups = {} /\ clicks = {}
    /\ leaving = [a \in DataAccounts |-> Staying] /\ cleanup = {}
    /\ adding = [a \in DataAccounts |-> "none"]
    /\ wipe = NoWipe /\ copying = {} /\ restoring = {}
    /\ survivors = {} /\ refused = {} /\ leftover = {} /\ crossed = {} /\ crashes = 0

\* REFERENCES emails(id), which has no ON DELETE.
Referenced(a) == a \in backups \cup clicks

\* Accounts whose mail a disconnection has deleted and whose vectors it still holds.
Collecting == {a \in DataAccounts : leaving[a].step = "spawn" /\ leaving[a].collected}

-----------------------------------------------------------------------------
(* A sync of a connected account stores its mail and embeds it. *)

StartSync(a) ==
    /\ status[a] = "connected" /\ adding[a] = "none" /\ a \notin mail
    /\ adding' = [adding EXCEPT ![a] = "fetch"]
    /\ UNCHANGED <<tables, leaving, cleanup, wipe, copying, restoring, history, crashes>>

\* Is mail or a vector of the account being removed, or removed, behind the sync?
Crosses(a) ==
    crossed' = IF leaving[a] = Staying /\ cleanup = {} /\ wipe.step = "none" /\ status[a] = "connected"
               THEN crossed ELSE crossed \cup {a}

StoreMail(a) ==
    /\ adding[a] = "fetch"
    /\ mail' = mail \cup {a}
    /\ adding' = [adding EXCEPT ![a] = "embed"]
    /\ Crosses(a)
    /\ UNCHANGED <<status, vectors, backups, clicks, leaving, cleanup, wipe, copying, restoring,
                   survivors, refused, leftover, crashes>>

\* The vector is inserted whether the row is still there or not.
Embed(a) ==
    /\ adding[a] = "embed"
    /\ vectors' = vectors \cup {a}
    /\ adding' = [adding EXCEPT ![a] = "none"]
    /\ crossed' = IF a \in mail /\ leaving[a] = Staying /\ a \notin cleanup THEN crossed
                  ELSE crossed \cup {a}
    /\ UNCHANGED <<status, mail, backups, clicks, leaving, cleanup, wipe, copying, restoring,
                   survivors, refused, leftover, crashes>>

\* record_click: a search result of the account is opened.
Click(a) ==
    /\ a \in mail \ clicks
    /\ clicks' = clicks \cup {a}
    /\ UNCHANGED <<status, mail, vectors, backups, leaving, cleanup, adding, wipe, copying,
                   restoring, history, crashes>>

\* Mutant: the vectors are looked up when the rows are gone.
ForgetVectors(a) ==
    /\ leaving[a].step = "none" /\ status[a] = "connected"
    /\ leaving' = [leaving EXCEPT ![a] = [step |-> "mail", collected |-> FALSE]]
    /\ UNCHANGED <<tables, cleanup, adding, wipe, copying, restoring, history, crashes>>

-----------------------------------------------------------------------------
(* disconnect_account: collect the vector ids, delete mail and sync state, *)
(* delete the vectors in the background, clear the row.                    *)

\* A query that fails is taken for no ids.
Collect(a) ==
    /\ leaving[a].step = "none" /\ status[a] = "connected"
    /\ \/ /\ leaving' = [leaving EXCEPT ![a] = [step |-> "mail",
                                              collected |-> a \in mail \cap vectors]]
          /\ leftover' = leftover \ ({a} \cap mail)
       \/ /\ leaving' = [leaving EXCEPT ![a] = [step |-> "mail", collected |-> FALSE]]
          /\ leftover' = leftover \cup ({a} \cap mail \cap vectors)
    /\ UNCHANGED <<tables, cleanup, adding, wipe, copying, restoring, survivors, refused, crossed,
                   crashes>>

\* An error of the delete, because a row refers to the mail or any other, is taken
\* for no rows.
DeleteMail(a) ==
    /\ leaving[a].step = "mail"
    /\ \/ ~Referenced(a) /\ mail' = mail \ {a} /\ UNCHANGED refused
       \/ mail' = mail /\ refused' = refused \cup {a}
    /\ leaving' = [leaving EXCEPT ![a].step = "spawn"]
    /\ crossed' = IF adding[a] = "none" /\ restoring = {} THEN crossed ELSE crossed \cup {a}
    /\ survivors' = survivors \cap mail'
    /\ UNCHANGED <<status, vectors, backups, clicks, cleanup, adding, wipe, copying, restoring,
                   leftover, crashes>>

\* The sync state is deleted, and the vectors are left to a task.
SpawnDeletes(a) ==
    /\ leaving[a].step = "spawn"
    /\ leaving' = [leaving EXCEPT ![a].step = "row"]
    /\ cleanup' = IF leaving[a].collected THEN cleanup \cup {a} ELSE cleanup
    /\ UNCHANGED <<tables, adding, wipe, copying, restoring, history, crashes>>

\* The store may fail, which nobody hears of.
DeleteVectors(a) ==
    /\ a \in cleanup /\ cleanup' = cleanup \ {a}
    /\ \/ vectors' = vectors \ {a} /\ leftover' = leftover \ {a}
       \/ vectors' = vectors /\ leftover' = leftover \cup {a}
    /\ UNCHANGED <<status, mail, backups, clicks, leaving, adding, wipe, copying, restoring,
                   survivors, refused, crossed, crashes>>

ClearRow(a) ==
    /\ leaving[a].step = "row"
    /\ status' = [status EXCEPT ![a] = "disconnected"]
    /\ leaving' = [leaving EXCEPT ![a] = Staying]
    /\ UNCHANGED <<mail, vectors, backups, clicks, cleanup, adding, wipe, copying, restoring,
                   history, crashes>>

\* The caller is gone, or the row could not be cleared: the account stays connected.
DropDisconnect(a) ==
    /\ leaving[a] # Staying
    /\ leaving' = [leaving EXCEPT ![a] = Staying]
    /\ leftover' = leftover \cup (Collecting \cap {a})
    /\ UNCHANGED <<tables, cleanup, adding, wipe, copying, restoring, survivors, refused, crossed,
                   crashes>>

-----------------------------------------------------------------------------
(* Wipes: one statement after another. *)

Wipe(step, of) == wipe' = [step |-> step, of |-> of]

\* wipe_user_data deletes the backups of the user
WipeUser(a) ==
    /\ wipe = NoWipe
    /\ backups' = backups \ (mail \cap {a})
    /\ Wipe("user", a)
    /\ UNCHANGED <<status, mail, vectors, clicks, leaving, cleanup, adding, copying, restoring,
                   history, crashes>>

\* wipe_all_data
WipeAll ==
    /\ wipe = NoWipe
    /\ backups' = {} /\ Wipe("interactions", "none")
    /\ survivors' = mail
    /\ UNCHANGED <<status, mail, vectors, clicks, leaving, cleanup, adding, copying, restoring,
                   refused, leftover, crossed, crashes>>

WipeInteractions ==
    /\ wipe.step = "interactions"
    /\ clicks' = {} /\ Wipe("mail", "none")
    /\ UNCHANGED <<status, mail, vectors, backups, leaving, cleanup, adding, copying, restoring,
                   history, crashes>>

\* DELETE FROM emails is refused as a whole when one row is referred to.
WipeMail ==
    /\ wipe.step = "mail" /\ \A a \in mail : ~Referenced(a)
    /\ Wipe("audit", "none") /\ mail' = {}
    /\ survivors' = {} /\ crossed' = crossed \cup (vectors \cap mail)
    /\ UNCHANGED <<status, vectors, backups, clicks, leaving, cleanup, adding, copying, restoring,
                   refused, leftover, crashes>>

\* After log_wipe, or earlier at an error or the end of the request.  The wipe of a
\* user always ends here, for search_interactions has no column user_id: neither the
\* mail nor the audit row that follow in the code are reached.
EndWipe ==
    /\ wipe # NoWipe /\ wipe' = NoWipe
    /\ UNCHANGED <<tables, leaving, cleanup, adding, copying, restoring, history, crashes>>

-----------------------------------------------------------------------------
(* backup_all lists a page of vectors and inserts row after row. *)

ListVectors ==
    /\ copying = {} /\ vectors # {}
    /\ copying' = vectors
    /\ UNCHANGED <<tables, leaving, cleanup, adding, wipe, restoring, history, crashes>>

\* Without its mail row the insert is refused, which ends the backup.
CopyVector(a) ==
    /\ a \in copying
    /\ IF a \in mail THEN backups' = backups \cup {a} /\ copying' = copying \ {a}
                     ELSE backups' = backups /\ copying' = {}
    /\ UNCHANGED <<status, mail, vectors, clicks, leaving, cleanup, adding, wipe, restoring,
                   history, crashes>>

\* restore_all reads the rows; the handler inserts them into the store.
ReadBackups ==
    /\ restoring = {} /\ backups # {}
    /\ restoring' = backups
    /\ UNCHANGED <<tables, leaving, cleanup, adding, wipe, copying, history, crashes>>

RestoreVector(a) ==
    /\ a \in restoring
    /\ restoring' = restoring \ {a} /\ vectors' = vectors \cup {a}
    /\ crossed' = IF a \in mail /\ leaving[a] = Staying THEN crossed ELSE crossed \cup {a}
    /\ UNCHANGED <<status, mail, backups, clicks, leaving, cleanup, adding, wipe, copying,
                   survivors, refused, leftover, crashes>>

\* The process dies; tables and store stay.
Crash ==
    /\ crashes < MaxCrashes /\ crashes' = crashes + 1
    /\ leaving' = [a \in DataAccounts |-> Staying]
    /\ adding' = [a \in DataAccounts |-> "none"]
    /\ cleanup' = {} /\ wipe' = NoWipe /\ copying' = {} /\ restoring' = {}
    /\ leftover' = leftover \cup cleanup \cup Collecting
    /\ UNCHANGED <<tables, survivors, refused, crossed>>

DataNext ==
    \/ \E a \in DataAccounts :
          \/ StartSync(a) \/ StoreMail(a) \/ Embed(a) \/ Click(a)
          \/ Collect(a) \/ DeleteMail(a) \/ SpawnDeletes(a) \/ DeleteVectors(a)
          \/ ClearRow(a) \/ DropDisconnect(a)
          \/ WipeUser(a) \/ CopyVector(a) \/ RestoreVector(a)
    \/ WipeAll \/ WipeInteractions \/ WipeMail \/ EndWipe
    \/ ListVectors \/ ReadBackups \/ Crash

DataSpec == DataInit /\ [][DataNext]_dataVars

-----------------------------------------------------------------------------
DataTypeOK ==
    /\ status \in [DataAccounts -> {"connected", "disconnected"}]
    /\ mail \subseteq DataAccounts /\ vectors \subseteq DataAccounts
    /\ backups \subseteq DataAccounts /\ clicks \subseteq DataAccounts
    /\ leaving \in [DataAccounts -> [step : {"none", "mail", "spawn", "row"}, collected : BOOLEAN]]
    /\ \A a \in DataAccounts : leaving[a] # Staying => status[a] = "connected"
    /\ cleanup \subseteq DataAccounts
    /\ adding \in [DataAccounts -> {"none", "fetch", "embed"}]
    /\ wipe \in [step : {"none", "user", "interactions", "mail", "audit"},
                 of : DataAccounts \cup {"none"}]
    /\ copying \subseteq DataAccounts /\ restoring \subseteq DataAccounts
    /\ survivors \subseteq DataAccounts /\ refused \subseteq DataAccounts
    /\ leftover \subseteq DataAccounts /\ crossed \subseteq DataAccounts
    /\ crashes \in 0..MaxCrashes

\* A disconnected account keeps no mail, unless the database did not delete it, because
\* a backup or a click refers to it or for an error, or a sync stored it behind the
\* disconnection.
DisconnectLeavesNoMail ==
    \A a \in DataAccounts : status[a] = "disconnected" /\ a \in mail => a \in refused \cup crossed

\* A vector whose mail is gone is about to be deleted, unless it came back from a sync
\* or a restore, a wipe took the mail, or an error that disconnect_account swallows, a
\* dropped request or a crash left it behind.
VectorsHaveMail == vectors \ mail \subseteq cleanup \cup Collecting \cup leftover \cup crossed

\* The audit log says that everything was wiped only when no mail from before the
\* wipe is left.
AuditMeansWiped == wipe.step = "audit" => survivors = {}

\* What is left of an account's data once somebody asked for its removal.
DataInv == DataTypeOK /\ DisconnectLeavesNoMail /\ VectorsHaveMail /\ AuditMeansWiped
=============================================================================
