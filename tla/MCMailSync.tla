----------------------------- MODULE MCMailSync -----------------------------
(* One message, the poll, one request and one sender. *)
EXTENDS MailSync

CONSTANT m1
=============================================================================
