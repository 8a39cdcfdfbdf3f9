------------------------ MODULE MCIngestionPipeline ------------------------
(* A small mailbox for the model checker. *)
EXTENDS IngestionPipeline

OneAccount  == <<1, 1, 1>>
TwoAccounts == <<1, 2, 1, 1>>
=============================================================================
