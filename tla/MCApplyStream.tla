---------------------------- MODULE MCApplyStream ----------------------------
(* A small job for the model checker. *)
EXTENDS ApplyStream

CONSTANTS a1, a2
=============================================================================
