----------------------------- MODULE VectorIndex -----------------------------
(***************************************************************************)
(* The default vector store, vectors/ruvector_store.rs: a collection is an *)
(* index on disk, the documents that go with it in memory, and the sidecar *)
(* documents.json, which a start reads the documents from.  Pipelines      *)
(* insert batches and write the sidecar every few of them, after the lock  *)
(* has been dropped; single insertions, removals and a clearing write it   *)
(* under the lock.                                                         *)
(*                                                                         *)
(* A vector is a pair of its email and the number of the call that made    *)
(* it.  Only the collection of email texts is ever written to.             *)
(***************************************************************************)
EXTENDS Naturals, FiniteSets

CONSTANTS Messages,   \* emails of the pipelines
          Pipelines,  \* concurrent pipelines
          Interval,   \* sidecar_write_interval
          MaxCalls, MaxStops, MaxUpsets  \* bounds; removals and errors share one

ASSUME IndexAssumption ==
    /\ Interval \in Nat \ {0} /\ IsFiniteSet(Messages)
    /\ {MaxCalls, MaxStops, MaxUpsets} \subseteq Nat

VARIABLES index,      \* vectors of the HNSW index and its storage
          documents,  \* documents in memory
          sidecar,    \* documents.json: a set of documents, or unreadable
          batches,    \* batches_since_sidecar
          inserts,    \* what each pipeline's batch_insert is doing
          answered,   \* history: vectors whose insertion returned, unless removed
          astray,     \* history: vectors a stop or a fault left in one place only
          beside,    \* history: batches that ran beside another
          indexCounts \* calls, stops, faults and removals so far

indexVars == <<index, documents, sidecar, batches, inserts, answered, astray, beside, indexCounts>>

Torn == {<<"torn", 0>>}   \* a file that does not parse
Probe == "probe"     \* the email of POST /vectors/quantization's probe
Vectors == (Messages \cup {Probe}) \X (1..MaxCalls)
NoInsert == [pc |-> "idle", docs |-> {}, save |-> FALSE, json |-> {}]

IndexInit ==
    /\ index = {} /\ documents = {} /\ sidecar = {} /\ batches = 0
    /\ inserts = [p \in Pipelines |-> NoInsert]
    /\ answered = {} /\ astray = {} /\ beside = {}
    /\ indexCounts = [calls |-> 0, stops |-> 0, faults |-> 0, removals |-> 0]

Call == /\ indexCounts.calls < MaxCalls
        /\ indexCounts' = [indexCounts EXCEPT !.calls = @ + 1]
CanUpset == indexCounts.faults + indexCounts.removals < MaxUpsets
FaultOnly == /\ CanUpset
             /\ indexCounts' = [indexCounts EXCEPT !.faults = @ + 1]
Removal == /\ CanUpset
           /\ indexCounts' = [indexCounts EXCEPT !.removals = @ + 1]

Batch(v) == v[2]
Busy == {p \in Pipelines : inserts[p].pc # "idle"}
BatchesOf(some) == UNION {{Batch(v) : v \in inserts[p].docs} : p \in some}

\* Mutant: the batch after the one that reaches the interval writes.
WriteLate(before) == before >= Interval

\* The batch that reaches the interval writes the sidecar.
ShouldWrite(before) == before + 1 >= Interval

\* fetch_add; several batches may find the counter at the interval.
CountBatch(p, mails) ==
    /\ inserts[p].pc = "idle" /\ mails # {} /\ Call
    /\ batches' = batches + 1
    /\ inserts' = [inserts EXCEPT ![p] =
           [pc |-> IF ShouldWrite(batches) THEN "reset" ELSE "insert",
            docs |-> mails \X {indexCounts.calls + 1}, save |-> ShouldWrite(batches),
            json |-> {}]]
    /\ beside' = IF Busy = {} THEN beside
                  ELSE beside \cup BatchesOf(Busy) \cup {indexCounts.calls + 1}
    /\ UNCHANGED <<index, documents, sidecar, answered, astray>>

ResetCounter(p) ==
    /\ inserts[p].pc = "reset"
    /\ batches' = 0
    /\ inserts' = [inserts EXCEPT ![p].pc = "insert"]
    /\ UNCHANGED <<index, documents, sidecar, answered, astray, beside, indexCounts>>

\* For each email of the batch one older vector is looked up by the email.
Older(docs) ==
    LET same == {v \in documents : \E d \in docs : d[1] = v[1]}
    IN  {old \in SUBSET same :
            /\ {v[1] : v \in old} = {v[1] : v \in same}
            /\ Cardinality(old) = Cardinality({v[1] : v \in old})}

\* Under the lock, with the vectors old removed, but kept by the index when it
\* reports an error, which is ignored, and the vectors stored put in.  An error of
\* insert_batch returns at once and writes no sidecar, the counter being reset.
Replace(p, old, kept, stored) ==
    LET docs == inserts[p].docs
    IN  /\ IF kept # {} \/ stored # docs THEN FaultOnly ELSE UNCHANGED indexCounts
        /\ index' = (index \ (old \ kept)) \cup stored
        /\ documents' = (documents \ old) \cup IF stored = docs THEN docs ELSE {}
        /\ astray' = astray \cup kept \cup IF stored = docs THEN {} ELSE stored
        /\ IF stored = docs /\ inserts[p].save
           THEN /\ inserts' = [inserts EXCEPT ![p].pc = "open", ![p].json = documents']
                /\ answered' = answered \ old
           ELSE /\ inserts' = [inserts EXCEPT ![p] = NoInsert]
                /\ answered' = (answered \ old) \cup IF stored = docs THEN docs ELSE {}

InsertBatch(p) ==
    /\ inserts[p].pc = "insert"
    /\ \E old \in Older(inserts[p].docs) :
          \E kept \in SUBSET old, stored \in SUBSET inserts[p].docs : Replace(p, old, kept, stored)
    /\ UNCHANGED <<sidecar, batches, beside>>

\* fs::write opens and truncates the file, then writes what was serialised under
\* the lock, over whatever another writer has put there meanwhile.
OpenSidecar(p) ==
    /\ inserts[p].pc = "open"
    /\ sidecar' = Torn
    /\ inserts' = [inserts EXCEPT ![p].pc = "fill"]
    /\ UNCHANGED <<index, documents, batches, answered, astray, beside, indexCounts>>

Return(p) ==
    /\ inserts' = [inserts EXCEPT ![p] = NoInsert]
    /\ answered' = answered \cup (inserts[p].docs \cap documents)
    /\ UNCHANGED <<index, documents, batches, astray, beside>>

FillSidecar(p) ==
    /\ inserts[p].pc = "fill" /\ Return(p)
    /\ sidecar' \in {inserts[p].json} \cup IF sidecar = Torn THEN {} ELSE {Torn}
    /\ UNCHANGED indexCounts

\* An error of the write is logged.
WriteFails(p) ==
    /\ inserts[p].pc \in {"open", "fill"} /\ FaultOnly /\ Return(p)
    /\ UNCHANGED sidecar

\* save_sidecar, under the lock, but a pipeline may be writing the file as well.
SaveSidecar ==
    sidecar' \in {documents'} \cup
        IF \E p \in Pipelines : inserts[p].pc = "fill" THEN {Torn} ELSE {}

InsertProbe ==
    LET v == <<Probe, indexCounts.calls + 1>>
    IN  /\ Call
        /\ index' = index \cup {v} /\ documents' = documents \cup {v}
        /\ answered' = answered \cup {v}
        /\ SaveSidecar
        /\ beside' = IF Busy = {} THEN beside ELSE beside \cup {Batch(v)}
        /\ UNCHANGED <<batches, inserts, astray>>

\* The probe again, or a vector of an account that is removed.  When the index
\* reports an error the document is gone and the sidecar still has it.
RemoveVector(v) ==
    /\ v \in documents
    /\ documents' = documents \ {v} /\ answered' = answered \ {v}
    /\ \/ /\ Removal /\ index' = index \ {v} /\ SaveSidecar
          /\ UNCHANGED astray
       \/ /\ FaultOnly /\ astray' = astray \cup {v}
          /\ UNCHANGED <<index, sidecar>>
    /\ UNCHANGED <<batches, inserts, beside>>

\* A re-embedding of everything clears what the documents name; an error of the index
\* is dropped.
ClearVectors ==
    /\ documents # {} /\ Removal
    /\ \E gone \in SUBSET documents : index' = index \ gone
    /\ documents' = {} /\ answered' = answered \ documents
    /\ astray' = astray \cup (index' \cap documents)
    /\ SaveSidecar
    /\ UNCHANGED <<batches, inserts, beside>>

\* load_sidecar: a file that does not parse counts as empty.
Loaded == IF sidecar' = Torn THEN {} ELSE sidecar'

\* The server is killed, perhaps within a save_sidecar; only a process that
\* returns from main drops the store, which writes the sidecar once more.
StopAndStart ==
    /\ indexCounts.stops < MaxStops
    /\ indexCounts' = [indexCounts EXCEPT !.stops = @ + 1]
    /\ sidecar' \in {sidecar, Torn, documents}
    /\ documents' = Loaded
    /\ batches' = 0 /\ inserts' = [p \in Pipelines |-> NoInsert]
    /\ astray' = (index \ documents') \cup (documents' \ index) \cup (answered \ documents')
    /\ UNCHANGED <<index, answered, beside>>

IndexNext ==
    \/ \E p \in Pipelines :
          \/ \E mails \in SUBSET Messages : CountBatch(p, mails)
          \/ ResetCounter(p) \/ InsertBatch(p)
          \/ OpenSidecar(p) \/ FillSidecar(p) \/ WriteFails(p)
    \/ InsertProbe \/ (\E v \in documents : RemoveVector(v)) \/ ClearVectors
    \/ StopAndStart

IndexSpec == IndexInit /\ [][IndexNext]_indexVars

IndexTypeOK ==
    /\ index \subseteq Vectors /\ documents \subseteq Vectors
    /\ sidecar = Torn \/ sidecar \subseteq Vectors
    /\ batches \in Nat
    /\ \A p \in Pipelines :
          /\ inserts[p].pc \in {"idle", "reset", "insert", "open", "fill"}
          /\ inserts[p].docs \subseteq Vectors /\ inserts[p].json \subseteq Vectors

\* No email of a pipeline has two documents, whatever batches embed it again at
\* the same time and whichever sidecar a start finds.
OnePerMessage ==
    \A v, w \in documents : v[1] = w[1] /\ v[1] # Probe => v = w

\* While the process lives, index and documents name the same vectors, and every
\* insertion that returned is among them: only a stop or an error of the index
\* leaves a vector in one place.
IndexMatchesDocuments ==
    /\ index \ documents \subseteq astray /\ documents \ index \subseteq astray
    /\ answered \ documents \subseteq astray

\* A stop loses fewer batches than the interval, and an interval more for each
\* write or insertion that failed, apart from batches that ran beside another.
BoundedLoss ==
    sidecar # Torn /\ (\A p \in Pipelines : inserts[p].pc = "idle") =>
        Cardinality({Batch(v) : v \in documents \ sidecar} \ beside)
            < Interval * (1 + indexCounts.faults)

IndexInv == IndexTypeOK /\ OnePerMessage /\ IndexMatchesDocuments /\ BoundedLoss
=============================================================================
