---------------------------- MODULE TopicClusters ----------------------------
(***************************************************************************)
(* The topic clusters of vectors/clustering.rs: the full reclustering that *)
(* the pipeline and POST /clustering/recluster run, pinning, the clearing  *)
(* by a full re-embedding, persistence in SQLite and the load at the start.*)
(* The clusters and the assignments have a read-write lock each, and both  *)
(* are modelled as the code takes and drops them.                          *)
(*                                                                         *)
(* What the algorithms find is left open: any family of disjoint groups of *)
(* the emails listed, each like an old cluster or like none.               *)
(***************************************************************************)
EXTENDS Naturals, FiniteSets, FiniteSetsExt

CONSTANTS Mails,        \* emails of the instance
          Runs,         \* concurrent reclusterings and pinnings
          Ids,          \* cluster ids, enough never to run out of fresh ones
          Threshold,    \* recluster_threshold
          MinMails,     \* min_cluster_emails
          MaxPins, MaxClears, MaxPersistFaults, MaxLoads  \* bounds

ASSUME TopicAssumption ==
    /\ Threshold \in Nat /\ MinMails \in Nat /\ {MaxPins, MaxClears, MaxPersistFaults, MaxLoads} \subseteq Nat
    /\ IsFiniteSet(Mails) /\ 0 \notin Ids

VARIABLES vectored,      \* emails with a vector in the store
          topics,       \* ClusterEngine.clusters
          assigned,     \* ClusterEngine.assignments, 0 for none
          lastCount,    \* last_clustered_vector_count
          savedTopics,  \* the rows of topic_clusters
          runs,         \* what each run is doing
          locks,        \* the writer of each lock
          clearing,     \* the step of the re-embedding that clears
          pinned,       \* history: clusters the user pinned and nothing cleared
          drifted,      \* history: a save failed, or a clearing overtook one
          topicCounts   \* pins, clearings, faults and loads so far

topicVars == <<vectored, topics, assigned, lastCount, savedTopics, runs, locks, clearing,
               pinned, drifted, topicCounts>>

Free == "free"
Resting == [pc |-> "idle", docs |-> {}]

TopicInit ==
    /\ vectored = {} /\ topics = {} /\ savedTopics = {} /\ lastCount = 0
    /\ assigned = [e \in Mails |-> 0]
    /\ runs = [r \in Runs |-> Resting]
    /\ locks = [clusters |-> Free, assignments |-> Free]
    /\ clearing = "none"
    /\ pinned = {} /\ drifted = FALSE
    /\ topicCounts = [pins |-> 0, clears |-> 0, faults |-> 0, loads |-> 0]

\* persist_clusters holds the clusters for reading until it has committed.
Reading == {r \in Runs : runs[r].pc = "commit"}
Writable == locks.clusters = Free /\ Reading = {}

PinnedIds(some) == {c.id : c \in {d \in some : d.pinned}}

\* A vector of e is inserted by the pipeline.
EmbedMail(e) ==
    /\ e \notin vectored
    /\ vectored' = vectored \cup {e}
    /\ UNCHANGED <<topics, assigned, lastCount, savedTopics, runs, locks, clearing, pinned,
                   drifted, topicCounts>>

ShouldRecluster ==
    Cardinality(vectored) >= MinMails /\ Cardinality(vectored) >= lastCount + Threshold

\* A request does not ask whether it is time; with no vectors a run ends at once.
List(r, asked) ==
    /\ runs[r].pc = "idle" /\ vectored # {}
    /\ asked \/ ShouldRecluster
    /\ runs' = [runs EXCEPT ![r] = [pc |-> "listed", docs |-> vectored]]
    /\ UNCHANGED <<vectored, topics, assigned, lastCount, savedTopics, locks, clearing, pinned,
                   drifted, topicCounts>>

\* Step 6 takes the clusters for writing, then the assignments.
LockClusters(r) ==
    /\ runs[r].pc = "listed" /\ Writable
    /\ locks' = [locks EXCEPT !.clusters = r]
    /\ runs' = [runs EXCEPT ![r].pc = "match"]
    /\ UNCHANGED <<vectored, topics, assigned, lastCount, savedTopics, clearing, pinned,
                   drifted, topicCounts>>

Disjoint(groups) == \A g, h \in groups : g # h => g \cap h = {}
Groupings(docs) == {groups \in SUBSET (SUBSET docs \ {{}}) : Disjoint(groups)}

Used == {c.id : c \in topics \cup savedTopics} \cup {assigned[e] : e \in Mails} \cup pinned

\* No two of the groups share an id; 0 is none.
OneEach(f) == \A g, h \in DOMAIN f : g # h => f[g] # f[h] \/ f[g] = 0

Fresh(groups) == {f \in [groups -> Ids \ Used] : OneEach(f)}

\* A group like an old cluster that is not pinned takes over its id; of two like
\* the same one the second is dropped.  (Bound: the fresh ids suffice.)
Merged(groups) ==
    LET old         == {c.id : c \in topics} \ PinnedIds(topics)
        new         == CHOOSE f \in Fresh(groups) : TRUE
        Id(like, g) == IF like[g] = 0 THEN new[g] ELSE like[g]
    IN  {{[id |-> Id(like, g), of |-> g, pinned |-> FALSE] : g \in groups} :
             like \in {f \in [groups -> old \cup {0}] : OneEach(f) /\ Fresh(groups) # {}}}

\* Mutant: the pinned clusters are not carried over.
CombinedNew(new) == new

Combined(new) == {c \in topics : c.pinned} \cup new

\* Later clusters overwrite earlier ones, and the pinned come first.
Assigns(f, new, all) ==
    \A e \in Mails :
        LET ids(some) == {c.id : c \in {d \in some : e \in d.of}}
        IN  CASE ids(new) # {} -> f[e] \in ids(new)
              [] ids(new) = {} /\ ids(all) # {} -> f[e] \in ids(all)
              [] OTHER -> f[e] = 0

Assignments(new, all) == {f \in [Mails -> Ids \cup {0}] : Assigns(f, new, all)}

\* The clusters' lock is dropped before persisting, the assignments' is not.
Install(r) ==
    /\ runs[r].pc = "match" /\ locks.assignments = Free
    /\ \E groups \in Groupings(runs[r].docs) : \E new \in Merged(groups) :
          /\ topics' = Combined(new)
          /\ assigned' \in Assignments(new, topics')
    /\ locks' = [clusters |-> Free, assignments |-> r]
    /\ runs' = [runs EXCEPT ![r].pc = "persist"]
    /\ UNCHANGED <<vectored, lastCount, savedTopics, clearing, pinned, drifted, topicCounts>>

Pin(r) ==
    /\ runs[r].pc = "idle" /\ Writable /\ topicCounts.pins < MaxPins
    /\ \E c \in topics :
          /\ topics' = (topics \ {c}) \cup {[c EXCEPT !.pinned = TRUE]}
          /\ pinned' = pinned \cup {c.id}
    /\ runs' = [runs EXCEPT ![r] = [pc |-> "persist", docs |-> {}]]
    /\ topicCounts' = [topicCounts EXCEPT !.pins = @ + 1]
    /\ UNCHANGED <<vectored, assigned, lastCount, savedTopics, locks, clearing, drifted>>

Persist(r) ==
    /\ runs[r].pc = "persist" /\ locks.clusters = Free
    /\ runs' = [runs EXCEPT ![r].pc = "commit"]
    /\ UNCHANGED <<vectored, topics, assigned, lastCount, savedTopics, locks, clearing, pinned,
                   drifted, topicCounts>>

\* At the end of a reclustering the count is recorded and every lock released.
EndRun(r) ==
    /\ runs' = [runs EXCEPT ![r] = Resting]
    /\ IF locks.assignments = r
       THEN /\ locks' = [locks EXCEPT !.assignments = Free]
            /\ lastCount' = Cardinality(runs[r].docs)
       ELSE UNCHANGED <<locks, lastCount>>
    /\ UNCHANGED <<vectored, topics, assigned, clearing, pinned>>

Commit(r) ==
    /\ runs[r].pc = "commit"
    /\ savedTopics' = topics /\ drifted' = FALSE
    /\ EndRun(r)
    /\ UNCHANGED topicCounts

\* A failure to persist is logged.
CommitFails(r) ==
    /\ runs[r].pc = "commit" /\ topicCounts.faults < MaxPersistFaults
    /\ topicCounts' = [topicCounts EXCEPT !.faults = @ + 1]
    /\ drifted' = TRUE
    /\ EndRun(r)
    /\ UNCHANGED savedTopics

\* The full re-embedding clears the store, then the clusters, in steps.
ClearStore ==
    /\ clearing = "none" /\ topicCounts.clears < MaxClears
    /\ topicCounts' = [topicCounts EXCEPT !.clears = @ + 1]
    /\ vectored' = {} /\ clearing' = "clusters"
    /\ UNCHANGED <<topics, assigned, lastCount, savedTopics, runs, locks, pinned, drifted>>

ClearMemory ==
    /\ clearing = "clusters" /\ Writable
    /\ topics' = {} /\ pinned' = {} /\ clearing' = "assignments"
    /\ UNCHANGED <<vectored, assigned, lastCount, savedTopics, runs, locks, drifted, topicCounts>>

ClearAssignments ==
    /\ clearing = "assignments" /\ locks.assignments = Free
    /\ assigned' = [e \in Mails |-> 0] /\ clearing' = "rows"
    /\ UNCHANGED <<vectored, topics, lastCount, savedTopics, runs, locks, pinned, drifted, topicCounts>>

\* The DELETE takes no lock: it may remove what a run has persisted meanwhile.
ClearRows ==
    /\ clearing = "rows"
    /\ savedTopics' = {} /\ clearing' = "none"
    /\ drifted' = (topics # {})
    /\ UNCHANGED <<vectored, topics, assigned, lastCount, runs, locks, pinned, topicCounts>>

\* load_persisted_clusters after a restart; the store may be in memory only.
LoadTopics ==
    /\ topicCounts.loads < MaxLoads
    /\ topicCounts' = [topicCounts EXCEPT !.loads = @ + 1]
    /\ vectored' \in {vectored, {}}
    /\ topics' = savedTopics /\ pinned' = PinnedIds(savedTopics)
    /\ assigned' \in Assignments({}, savedTopics)
    /\ lastCount' = MapThenSumSet(LAMBDA c : Cardinality(c.of), savedTopics)
    /\ runs' = [r \in Runs |-> Resting]
    /\ locks' = [clusters |-> Free, assignments |-> Free]
    /\ clearing' = "none" /\ drifted' = FALSE
    /\ UNCHANGED savedTopics

RunStep(r) ==
    \/ \E asked \in BOOLEAN : List(r, asked)
    \/ LockClusters(r) \/ Install(r) \/ Pin(r) \/ Persist(r) \/ Commit(r) \/ CommitFails(r)

TopicNext ==
    \/ \E e \in Mails : EmbedMail(e)
    \/ \E r \in Runs : RunStep(r)
    \/ ClearStore \/ ClearMemory \/ ClearAssignments \/ ClearRows
    \/ LoadTopics

TopicSpec == TopicInit /\ [][TopicNext]_topicVars

TopicTypeOK ==
    /\ vectored \subseteq Mails
    /\ topics \cup savedTopics \subseteq [id : Ids, of : SUBSET Mails, pinned : BOOLEAN]
    /\ \A c, d \in topics : c.id = d.id => c = d
    /\ assigned \in [Mails -> Ids \cup {0}]
    /\ locks \in [clusters : Runs \cup {Free}, assignments : Runs \cup {Free}]

\* An email is assigned to a cluster that is there and contains it, except while
\* a clearing has emptied the one map and not yet the other.
AssignmentsFollow ==
    \A e \in Mails :
        assigned[e] # 0 =>
            clearing = "assignments" \/ \E c \in topics : c.id = assigned[e] /\ e \in c.of

\* What a restart will load is what is in memory once nobody is about to save
\* it, unless a save failed or a clearing overtook one.
SavedIsCurrent ==
    \/ drifted \/ clearing \in {"assignments", "rows"}
    \/ \E r \in Runs : runs[r].pc \in {"persist", "commit"}
    \/ savedTopics = topics

\* A pinned cluster outlives every reclustering that began before or after.
PinsStay == pinned \subseteq PinnedIds(topics)

TopicInv == TopicTypeOK /\ AssignmentsFollow /\ SavedIsCurrent /\ PinsStay

\* "Release the write lock before persisting": no two runs wait for each other,
\* one to persist and the other to install what it found.
NoCircularWait ==
    ~ \E r, q \in Runs : /\ runs[r].pc = "persist" /\ locks.assignments = r
                         /\ runs[q].pc = "match" /\ locks.clusters = q
=============================================================================
