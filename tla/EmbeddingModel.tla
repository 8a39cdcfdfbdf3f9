--------------------------- MODULE EmbeddingModel ---------------------------
(***************************************************************************)
(* When mail is embedded again: the checks of VectorService::new at the    *)
(* start (an empty store, another name of the embedding model), reindex.rs *)
(* and POST /ai/reembed, beside the pipeline, which takes a vector from    *)
(* the cache or the provider, marks the email and then inserts it.         *)
(*                                                                         *)
(* emails.embedding_model holds a constant, so that a row tells nothing of *)
(* the model: what it tells is vector_id, and the model behind that vector *)
(* is what the properties ask for.                                         *)
(***************************************************************************)
EXTENDS Naturals

CONSTANTS Letters,       \* emails
          EmbedModels,   \* embedding models, and the names the settings give them
          MaxBoots, MaxReembeds, MaxBootFaults  \* bounds

NoEmbedModel == "none"

ASSUME EmbeddingAssumption ==
    {MaxBoots, MaxReembeds, MaxBootFaults} \subseteq Nat /\ NoEmbedModel \notin EmbedModels

VARIABLES embedding,   \* each row: embedding_status, and the model behind its vector_id
          store,       \* vectors: pairs of an email and the model that made it
          stored,      \* active_embedding_model in ai_metadata
          setting,     \* config.embedding.model, which a start compares
          maker,       \* the model of the provider: setting, or onnx, cloud, cohere's own
          cached,      \* Redis: the model behind the vector kept for the text of an email
          boot,        \* step of the start
          hand,        \* the model behind the vector the pipeline has for an email
          inserting,   \* emails the pipeline has marked and not yet inserted
          reset,       \* step of a re-embedding
          behind,      \* history: maker when stored was last written or found equal
          missed,      \* history: emails a start should have marked stale, or could
                       \* not know it should, and those embedded by another model
          torn,        \* history: emails whose vector a crash or fault took
          embedCounts  \* starts, re-embeddings and faults so far

configVars == <<stored, setting, maker, behind>>
pipeVars   == <<cached, hand, inserting>>
embedVars  ==
    <<embedding, store, configVars, pipeVars, boot, reset, missed, torn, embedCounts>>

EmbedInit ==
    /\ embedding = [e \in Letters |-> [status |-> "pending", by |-> NoEmbedModel]]
    /\ store = {} /\ stored = NoEmbedModel /\ behind = NoEmbedModel
    /\ setting \in EmbedModels /\ maker \in EmbedModels
    /\ cached = [e \in Letters |-> NoEmbedModel] /\ hand = [e \in Letters |-> NoEmbedModel]
    /\ boot = "store" /\ inserting = {} /\ reset = "none"
    /\ missed = {} /\ torn = {}
    /\ embedCounts = [boots |-> 0, reembeds |-> 0, faults |-> 0]

With(status) == {e \in Letters : embedding[e].status = status}

\* UPDATE emails SET embedding_status = to WHERE embedding_status = from.
SetStatus(from, to) ==
    embedding' = [e \in Letters |->
        IF embedding[e].status = from THEN [embedding[e] EXCEPT !.status = to] ELSE embedding[e]]

Fault == /\ embedCounts.faults < MaxBootFaults
         /\ embedCounts' = [embedCounts EXCEPT !.faults = @ + 1]

Without(e) == <<e, embedding[e].by>> \notin store
LostBy(kept) == {e \in With("embedded") : <<e, embedding[e].by>> \in store \ kept}

\* The name recorded is the one configured, and so is the model behind it.
Recorded == stored = setting /\ behind = maker

-----------------------------------------------------------------------------
(* The checks of a start *)

\* "if the vector store is empty but the DB has emails marked as embedded, reset
\* them": a failed update counts as none.
CheckStore ==
    /\ boot = "store" /\ boot' = "model"
    /\ \/ /\ IF store = {} THEN SetStatus("embedded", "pending") ELSE UNCHANGED embedding
          /\ UNCHANGED <<torn, embedCounts>>
       \/ /\ store = {} /\ Fault
          /\ torn' = torn \cup With("embedded")
          /\ UNCHANGED embedding
    /\ UNCHANGED <<store, configVars, pipeVars, reset, missed>>

\* Mutant: the new model is recorded and nothing is marked.
RecordOnly ==
    /\ boot = "model" /\ boot' = "up"
    /\ stored' = setting /\ behind' = maker
    /\ UNCHANGED <<embedding, store, setting, maker, pipeVars, reset, missed, torn, embedCounts>>

\* check_model_change compares the name in config.embedding.model and records it
\* before anything is marked stale; a failed query skips the check.  A model that
\* changed behind the same name, as those of onnx, cloud and cohere do, is not seen.
CheckModelChange ==
    /\ boot = "model"
    /\ \/ /\ stored' = setting /\ behind' = maker
          /\ boot' = IF stored \in {NoEmbedModel, setting} THEN "up" ELSE "stale"
          /\ missed' = IF stored = setting /\ behind # maker THEN missed \cup With("embedded")
                       ELSE missed
          /\ UNCHANGED embedCounts
       \/ /\ Fault /\ boot' = "up"
          /\ missed' = IF Recorded THEN missed ELSE missed \cup With("embedded")
          /\ UNCHANGED <<stored, behind>>
    /\ UNCHANGED <<embedding, store, setting, maker, pipeVars, reset, torn>>

MarkAllStale ==
    /\ boot = "stale" /\ boot' = "up"
    /\ \/ /\ SetStatus("embedded", "stale") /\ missed' = {}
          /\ UNCHANGED embedCounts
       \/ /\ Fault /\ missed' = missed \cup With("embedded")
          /\ UNCHANGED embedding
    /\ UNCHANGED <<store, configVars, pipeVars, reset, torn>>

-----------------------------------------------------------------------------
(* The pipeline *)

\* embed_batch: pending and stale mail.  A vector in the cache is taken whatever
\* model made it: the key is the hash of the text.  Writing it may fail.
EmbedText(e) ==
    /\ boot = "up" /\ hand[e] = NoEmbedModel
    /\ embedding[e].status \in {"pending", "stale"}
    /\ \/ /\ cached[e] # NoEmbedModel
          /\ hand' = [hand EXCEPT ![e] = cached[e]]
          /\ UNCHANGED cached
       \/ /\ hand' = [hand EXCEPT ![e] = maker]
          /\ cached' \in {cached, [cached EXCEPT ![e] = maker]}
    /\ UNCHANGED <<embedding, store, configVars, boot, inserting, reset, missed, torn, embedCounts>>

\* The row is marked before the vector is inserted.
MarkEmbedded(e) ==
    /\ hand[e] # NoEmbedModel /\ e \notin inserting
    /\ embedding' = [embedding EXCEPT ![e] = [status |-> "embedded", by |-> hand[e]]]
    /\ inserting' = inserting \cup {e}
    /\ missed' = IF Recorded /\ hand[e] = maker THEN missed \ {e} ELSE missed \cup {e}
    /\ torn' = torn \ {e}
    /\ UNCHANGED <<store, configVars, boot, cached, hand, reset, embedCounts>>

\* The default store removes the email's older vector, the others keep it.  A row
\* that could not be marked has its vector inserted all the same.
InsertVector(e) ==
    /\ hand[e] # NoEmbedModel
    /\ IF e \in inserting THEN UNCHANGED embedCounts ELSE Fault
    /\ \E older \in {{}, {e} \X EmbedModels} : store' = (store \ older) \cup {<<e, hand[e]>>}
    /\ inserting' = inserting \ {e} /\ hand' = [hand EXCEPT ![e] = NoEmbedModel]
    /\ UNCHANGED <<embedding, configVars, boot, cached, reset, missed, torn>>

\* batch_insert fails: counted, and the row stays marked.
InsertFails(e) ==
    /\ e \in inserting /\ Fault
    /\ torn' = torn \cup {e}
    /\ inserting' = inserting \ {e} /\ hand' = [hand EXCEPT ![e] = NoEmbedModel]
    /\ UNCHANGED <<embedding, store, configVars, boot, cached, reset, missed>>

-----------------------------------------------------------------------------
(* POST /ai/reembed *)

\* Mode "all" clears the store, and the clusters (see TopicClusters), before it
\* resets the rows; an error of the clearing is logged.
ClearAll ==
    /\ boot = "up" /\ reset = "none" /\ embedCounts.reembeds < MaxReembeds
    /\ embedCounts' = [embedCounts EXCEPT !.reembeds = @ + 1]
    /\ store' \in {{}, store} /\ reset' = "rows"
    /\ UNCHANGED <<embedding, configVars, pipeVars, boot, missed, torn>>

\* One statement for all rows, which may fail when the store is cleared already.
ResetAll ==
    /\ reset = "rows" /\ reset' = "none"
    /\ \/ /\ embedding' = [e \in Letters |-> [status |-> "pending", by |-> NoEmbedModel]]
          /\ UNCHANGED torn
       \/ /\ torn' = torn \cup {e \in With("embedded") \ inserting : Without(e)}
          /\ UNCHANGED embedding
    /\ UNCHANGED <<store, configVars, pipeVars, boot, missed, embedCounts>>

ReembedStale ==
    /\ boot = "up" /\ With("stale") # {} /\ embedCounts.reembeds < MaxReembeds
    /\ embedCounts' = [embedCounts EXCEPT !.reembeds = @ + 1]
    /\ SetStatus("stale", "pending")
    /\ UNCHANGED <<store, configVars, pipeVars, boot, reset, missed, torn>>

-----------------------------------------------------------------------------
\* The process ends at any point and starts again, perhaps with other settings; a
\* store in memory is empty then, and the default one may have lost some vectors
\* (VectorIndex says which), which no check of a start notices.
Reboot ==
    /\ embedCounts.boots < MaxBoots
    /\ embedCounts' = [embedCounts EXCEPT !.boots = @ + 1]
    /\ setting' \in EmbedModels /\ maker' \in EmbedModels
    /\ store' \in SUBSET store
    /\ boot' = "store" /\ inserting' = {} /\ reset' = "none"
    /\ hand' = [e \in Letters |-> NoEmbedModel]
    /\ missed' = IF boot = "stale" THEN missed \cup With("embedded") ELSE missed
    /\ torn' = torn \cup inserting \cup (IF reset = "rows" THEN With("embedded") ELSE {})
                    \cup IF store' = {} THEN {} ELSE LostBy(store')
    /\ UNCHANGED <<embedding, stored, behind, cached>>

EmbedNext ==
    \/ CheckStore \/ CheckModelChange \/ MarkAllStale
    \/ \E e \in Letters : EmbedText(e) \/ MarkEmbedded(e) \/ InsertVector(e) \/ InsertFails(e)
    \/ ClearAll \/ ResetAll \/ ReembedStale
    \/ Reboot

EmbedSpec == EmbedInit /\ [][EmbedNext]_embedVars

-----------------------------------------------------------------------------
ModelOrNone == EmbedModels \cup {NoEmbedModel}

EmbedTypeOK ==
    /\ embedding \in [Letters -> [status : {"pending", "embedded", "stale"}, by : ModelOrNone]]
    /\ store \subseteq Letters \X EmbedModels
    /\ stored \in ModelOrNone /\ behind \in ModelOrNone
    /\ cached \in [Letters -> ModelOrNone] /\ hand \in [Letters -> ModelOrNone]
    /\ boot \in {"store", "model", "stale", "up"} /\ reset \in {"none", "rows"}
    /\ inserting \subseteq {e \in Letters : hand[e] # NoEmbedModel}
    /\ (\E e \in Letters : hand[e] # NoEmbedModel) \/ reset # "none" => boot = "up"

\* Mail that counts as embedded has a vector of the model the provider embeds with
\* now, unless a start failed to record or to mark, the model changed behind a name
\* that stayed, or the vector came from the cache of an earlier one.
EmbeddedByCurrent ==
    boot = "up" => \A e \in With("embedded") \ missed : embedding[e].by = maker

\* Mail that counts as embedded has its vector, or will have it in a moment,
\* unless a stop, a fault or a re-embedding came between the two.
EmbeddedHasVector ==
    boot = "up" /\ reset = "none" =>
        \A e \in With("embedded") \ (inserting \cup torn) : ~Without(e)

EmbedInv == EmbedTypeOK /\ EmbeddedByCurrent /\ EmbeddedHasVector
=============================================================================
